---------------------------- MODULE Spec2Model ----------------------------
(***************************************************************************)
(* Model of the tag-based bitmap index (qi7876/bitmap).                    *)
(*                                                                         *)
(* Text is modelled byte by byte: a string is a sequence of one-character  *)
(* strings, the empty string is << >>.  Ids are 0-based as in the code;    *)
(* vectors are TLA+ sequences, so vector element i is seq[i + 1].          *)
(* A roaring bitmap is modelled by the set of DocIds it holds.             *)
(***************************************************************************)
EXTENDS Integers, Sequences, FiniteSets, TLC

VARIABLES
    mapping_,                 \* Mapping: the four containers of mapping.h
    forward_index_,           \* ForwardIndex::doc_to_tags_
    inverted_index_,          \* InvertedIndex::tag_to_bitmap_
    last_processed_offset_,   \* IndexManager::last_processed_offset_
    status_file,              \* content of the status file on disk
    data_file,                \* the data file on disk
    lastOp,                   \* the operation that ran last
    lastArg,                  \* its argument (dictionary and index operations)
    lastRet,                  \* what it returned (loadIncremental, dictionary operations)
    ingested,                 \* history: records handed to processParsedLine
    passes,                   \* history: the passes of loadIncremental that parsed
    seen,                     \* history: the distinct strings interned, in order
    checkpoint,               \* the checkpoint directory on disk
    threads,                  \* the threads calling into the manager
    twin                      \* a second manager reading the same data file

vars == << mapping_, forward_index_, inverted_index_, last_processed_offset_,
           status_file, data_file, lastOp, lastArg, lastRet, ingested, passes, seen,
           checkpoint, threads, twin >>

indexVars == << mapping_, forward_index_, inverted_index_ >>

-----------------------------------------------------------------------------
(* Bounds of the model                                                     *)
IdBits == 8
MaxFileLen == 12
MaxQueryLen == 2
MaxDocId == 1
MaxTagId == 2
MaxOpLen == 3
WordCells == 2
OffsetBits == 8
MaxStatusLen == 3
NumThreads == 2

(* Program constants                                                       *)

\* DocId and TagId are uint32_t in the code; the model keeps the wrap-around
\* arithmetic and the all-ones sentinel at a width of IdBits bits
IdWrap == 2 ^ IdBits
INVALID_DOC_ID == IdWrap - 1
INVALID_TAG_ID == IdWrap - 1
\* FileOffset is uint64_t in the code; the model reads it at a width of
\* OffsetBits bits
OffsetWrap == 2 ^ OffsetBits
delimiter_ == "|"
NL == "\n"


-----------------------------------------------------------------------------
(* utils/string_util.cpp                                                   *)

\* the vertical tab (byte 0x0B), which has no escape in a TLA+ string
VT == "VT"

\* std::isspace in the "C" locale
is_whitespace(c) == c \in {" ", "\t", "\n", "\r", "\f", VT}

\* std::string_view::find(delimiter, start): 1-based index, 0 for npos
find(s, c, start) ==
    IF \E i \in start..Len(s) : s[i] = c
    THEN CHOOSE i \in start..Len(s) : s[i] = c /\ \A j \in start..(i - 1) : s[j] # c
    ELSE 0

RECURSIVE splitFrom(_, _, _, _)
splitFrom(s, delimiter, skip_empty, start) ==
    LET end == find(s, delimiter, start)
        token == IF end = 0 THEN SubSeq(s, start, Len(s)) ELSE SubSeq(s, start, end - 1)
        kept == IF (~skip_empty) \/ token # << >> THEN << token >> ELSE << >>
    IN  IF end = 0 THEN kept
        ELSE kept \o splitFrom(s, delimiter, skip_empty, end + 1)

split(s, delimiter, skip_empty) == splitFrom(s, delimiter, skip_empty, 1)

trimCopy(s) ==
    LET nonws == {i \in 1..Len(s) : ~is_whitespace(s[i])}
    IN  IF nonws = {} THEN << >>
        ELSE SubSeq(s, CHOOSE i \in nonws : \A j \in nonws : i <= j,
                       CHOOSE i \in nonws : \A j \in nonws : j <= i)

-----------------------------------------------------------------------------
(* io/csv_parser.cpp                                                       *)

\* the non-empty trimmed fields after the first one, in order
RECURSIVE trimmedTags(_, _)
trimmedTags(parts, i) ==
    IF i > Len(parts) THEN << >>
    ELSE LET trimmed_tag == trimCopy(parts[i])
         IN  (IF trimmed_tag # << >> THEN << trimmed_tag >> ELSE << >>)
             \o trimmedTags(parts, i + 1)

\* mutant: a line whose first field is empty after trimming is accepted
parseLine_AcceptsEmptyId(line) ==
    LET parts == split(line, delimiter_, FALSE)
        out_id == IF parts = << >> THEN << >> ELSE trimCopy(parts[1])
    IN  IF parts = << >>
        THEN [ok |-> FALSE, id |-> << >>, tags |-> << >>]
        ELSE [ok |-> TRUE, id |-> out_id, tags |-> trimmedTags(parts, 2)]

\* CsvParser::parseLine
parseLine(line) ==
    LET parts == split(line, delimiter_, FALSE)
        out_id == IF parts = << >> THEN << >> ELSE trimCopy(parts[1])
    IN  IF parts = << >> \/ out_id = << >>
        THEN [ok |-> FALSE, id |-> << >>, tags |-> << >>]
        ELSE [ok |-> TRUE, id |-> out_id, tags |-> trimmedTags(parts, 2)]

\* the lines std::getline yields from byte offset pos (0-based) to the end:
\* each runs up to, not including, the next newline; a last line without a
\* newline is yielded when it holds at least one byte
RECURSIVE getLines(_, _)
getLines(bytes, pos) ==
    IF pos >= Len(bytes) THEN << >>
    ELSE LET nl == find(bytes, NL, pos + 1)
         IN  IF nl = 0 THEN << SubSeq(bytes, pos + 1, Len(bytes)) >>
             ELSE << SubSeq(bytes, pos + 1, nl - 1) >> \o getLines(bytes, nl)

\* the number of newline bytes of a text
NumLines(bytes) == Cardinality({i \in 1..Len(bytes) : bytes[i] = NL})

\* the records the loop of parseStream hands to the callback for these lines
RECURSIVE recordsOf(_)
recordsOf(lines) ==
    IF lines = << >> THEN << >>
    ELSE LET trimmed_line == trimCopy(Head(lines))
             rec == parseLine(trimmed_line)
         IN  (IF trimmed_line # << >> /\ rec.ok
              THEN << [id |-> rec.id, tags |-> rec.tags] >> ELSE << >>)
             \o recordsOf(Tail(lines))


\* mutant: after a seek the lines read start at the second one
parseStream_SkipLineAfterSeek(bytes, start_offset, fault, cut) ==
    LET all   == getLines(bytes, start_offset)
        lines == IF start_offset > 0 /\ all # << >> THEN Tail(all) ELSE all
        read  == IF fault = "bad" /\ cut < Len(lines) THEN SubSeq(lines, 1, cut) ELSE lines
    IN  IF fault = "seek" /\ start_offset > 0
        THEN [records |-> << >>, ret |-> FALSE]
        ELSE [records |-> recordsOf(read), ret |-> fault # "bad"]

\* the outcome of CsvParser::parseStream on the stream `bytes`:
\*   fault = "seek": seekg fails, the function returns false at once;
\*   fault = "bad" : the stream goes bad after `cut` lines were read;
\*   fault = "none": every line to the end of the stream is read.
\* `records` are the callback invocations in order, `ret` the return value.
parseStream(bytes, start_offset, fault, cut) ==
    LET lines == getLines(bytes, start_offset)
        read  == IF fault = "bad" /\ cut < Len(lines) THEN SubSeq(lines, 1, cut) ELSE lines
    IN  IF fault = "seek" /\ start_offset > 0
        THEN [records |-> << >>, ret |-> FALSE]
        ELSE [records |-> recordsOf(read), ret |-> fault # "bad"]

-----------------------------------------------------------------------------
(* core/mapping.cpp                                                        *)

EmptyMapping ==
    [doc_id_to_string |-> << >>, string_to_doc_id |-> << >>,
     tag_id_to_string |-> << >>, string_to_tag_id |-> << >>]

\* std::unordered_map operator[] assignment
MapPut(map, key, value) ==
    [k \in (DOMAIN map) \cup {key} |-> IF k = key THEN value ELSE map[k]]

\* mutant: the string is given the next id without being looked up
getId_AlwaysNew(m, str_id) ==
    IF str_id = << >> THEN [id |-> INVALID_DOC_ID, m |-> m]
    ELSE LET new_id == Len(m.doc_id_to_string) % IdWrap
         IN  IF new_id = INVALID_DOC_ID THEN [id |-> INVALID_DOC_ID, m |-> m]
             ELSE [id |-> new_id,
                   m  |-> [m EXCEPT !.doc_id_to_string = Append(@, str_id),
                                    !.string_to_doc_id = MapPut(@, str_id, new_id)]]

\* mutant: the empty string is interned like any other
getId_NoEmptyCheck(m, str_id) ==
    IF str_id \in DOMAIN m.string_to_doc_id
    THEN [id |-> m.string_to_doc_id[str_id], m |-> m]
    ELSE LET new_id == Len(m.doc_id_to_string) % IdWrap
         IN  [id |-> new_id,
              m  |-> [m EXCEPT !.doc_id_to_string = Append(@, str_id),
                               !.string_to_doc_id = MapPut(@, str_id, new_id)]]

\* mutant: the next id is handed out without the check against the sentinel
getId_NoOverflowCheck(m, str_id) ==
    IF str_id = << >> THEN [id |-> INVALID_DOC_ID, m |-> m]
    ELSE IF str_id \in DOMAIN m.string_to_doc_id
    THEN [id |-> m.string_to_doc_id[str_id], m |-> m]
    ELSE LET new_id == Len(m.doc_id_to_string) % IdWrap
         IN  [id |-> new_id,
              m  |-> [m EXCEPT !.doc_id_to_string = Append(@, str_id),
                               !.string_to_doc_id = MapPut(@, str_id, new_id)]]

\* Mapping::getId(const StringId&): the id returned and the mapping afterwards
getId(m, str_id) ==
    IF str_id = << >> THEN [id |-> INVALID_DOC_ID, m |-> m]
    ELSE IF str_id \in DOMAIN m.string_to_doc_id
    THEN [id |-> m.string_to_doc_id[str_id], m |-> m]
    ELSE LET new_id == Len(m.doc_id_to_string) % IdWrap
         IN  IF new_id = INVALID_DOC_ID THEN [id |-> INVALID_DOC_ID, m |-> m]
             ELSE [id |-> new_id,
                   m  |-> [m EXCEPT !.doc_id_to_string = Append(@, str_id),
                                    !.string_to_doc_id = MapPut(@, str_id, new_id)]]

\* mutant: the key of the reverse map is the moved-from (empty) string
getIdMove_KeyAfterMove(m, str_id) ==
    IF str_id = << >> THEN [id |-> INVALID_DOC_ID, m |-> m]
    ELSE IF str_id \in DOMAIN m.string_to_doc_id
    THEN [id |-> m.string_to_doc_id[str_id], m |-> m]
    ELSE LET new_id == Len(m.doc_id_to_string) % IdWrap
         IN  [id |-> new_id,
              m  |-> [m EXCEPT !.doc_id_to_string = Append(@, str_id),
                               !.string_to_doc_id = MapPut(@, << >>, new_id)]]

\* Mapping::getId(StringId&&): the string is moved into the vector and the
\* key of the reverse map is the string stored in the vector
getIdMove(m, str_id) ==
    IF str_id = << >> THEN [id |-> INVALID_DOC_ID, m |-> m]
    ELSE IF str_id \in DOMAIN m.string_to_doc_id
    THEN [id |-> m.string_to_doc_id[str_id], m |-> m]
    ELSE LET new_id == Len(m.doc_id_to_string) % IdWrap
             pushed == Append(m.doc_id_to_string, str_id)
         IN  IF new_id = INVALID_DOC_ID THEN [id |-> INVALID_DOC_ID, m |-> m]
             ELSE [id |-> new_id,
                   m  |-> [m EXCEPT !.doc_id_to_string = pushed,
                                    !.string_to_doc_id =
                                        MapPut(@, pushed[Len(pushed)], new_id)]]

\* Mapping::getStringId
getStringId(m, doc_id) ==
    IF doc_id < Len(m.doc_id_to_string) THEN m.doc_id_to_string[doc_id + 1] ELSE << >>

getNextDocId(m) == Len(m.doc_id_to_string) % IdWrap

\* mutant: the first id handed out is 1
getTagId_OneBased(m, str_tag) ==
    IF str_tag = << >> THEN [id |-> INVALID_TAG_ID, m |-> m]
    ELSE IF str_tag \in DOMAIN m.string_to_tag_id
    THEN [id |-> m.string_to_tag_id[str_tag], m |-> m]
    ELSE LET new_id == (Len(m.tag_id_to_string) + 1) % IdWrap
         IN  [id |-> new_id,
              m  |-> [m EXCEPT !.tag_id_to_string = Append(@, str_tag),
                               !.string_to_tag_id = MapPut(@, str_tag, new_id)]]

\* Mapping::getTagId(const StringTag&)
getTagId(m, str_tag) ==
    IF str_tag = << >> THEN [id |-> INVALID_TAG_ID, m |-> m]
    ELSE IF str_tag \in DOMAIN m.string_to_tag_id
    THEN [id |-> m.string_to_tag_id[str_tag], m |-> m]
    ELSE LET new_id == Len(m.tag_id_to_string) % IdWrap
         IN  IF new_id = INVALID_TAG_ID THEN [id |-> INVALID_TAG_ID, m |-> m]
             ELSE [id |-> new_id,
                   m  |-> [m EXCEPT !.tag_id_to_string = Append(@, str_tag),
                                    !.string_to_tag_id = MapPut(@, str_tag, new_id)]]

\* Mapping::getTagId(StringTag&&)
getTagIdMove(m, str_tag) ==
    IF str_tag = << >> THEN [id |-> INVALID_TAG_ID, m |-> m]
    ELSE IF str_tag \in DOMAIN m.string_to_tag_id
    THEN [id |-> m.string_to_tag_id[str_tag], m |-> m]
    ELSE LET new_id == Len(m.tag_id_to_string) % IdWrap
             pushed == Append(m.tag_id_to_string, str_tag)
         IN  IF new_id = INVALID_TAG_ID THEN [id |-> INVALID_TAG_ID, m |-> m]
             ELSE [id |-> new_id,
                   m  |-> [m EXCEPT !.tag_id_to_string = pushed,
                                    !.string_to_tag_id =
                                        MapPut(@, pushed[Len(pushed)], new_id)]]

\* Mapping::getStringTag
getStringTag(m, tag_id) ==
    IF tag_id < Len(m.tag_id_to_string) THEN m.tag_id_to_string[tag_id + 1] ELSE << >>

getNextTagId(m) == Len(m.tag_id_to_string) % IdWrap

getDocCount(m) == Len(m.doc_id_to_string)

getTagCount(m) == Len(m.tag_id_to_string)

-----------------------------------------------------------------------------
(* core/forward_index.cpp                                                  *)

\* std::vector::resize to at least n elements, new ones default-constructed
GrowTo(vec, n, fresh) ==
    IF n <= Len(vec) THEN vec
    ELSE [i \in 1..n |-> IF i <= Len(vec) THEN vec[i] ELSE fresh]

\* mutant: the tags are appended to the slot instead of replacing it
addTags_Merge(doc_to_tags, doc_id, tag_ids) ==
    IF doc_id = INVALID_DOC_ID THEN doc_to_tags
    ELSE [GrowTo(doc_to_tags, doc_id + 1, << >>) EXCEPT ![doc_id + 1] = @ \o tag_ids]

\* mutant: the slot array grows by one slot only
addTags_GrowByOne(doc_to_tags, doc_id, tag_ids) ==
    IF doc_id = INVALID_DOC_ID THEN doc_to_tags
    ELSE IF doc_id < Len(doc_to_tags) THEN [doc_to_tags EXCEPT ![doc_id + 1] = tag_ids]
    ELSE Append(doc_to_tags, tag_ids)

\* ForwardIndex::addTags: the slot of doc_id is replaced
addTags(doc_to_tags, doc_id, tag_ids) ==
    IF doc_id = INVALID_DOC_ID THEN doc_to_tags
    ELSE [GrowTo(doc_to_tags, doc_id + 1, << >>) EXCEPT ![doc_id + 1] = tag_ids]

\* ForwardIndex::addTag: the tag is appended to the slot of doc_id
addTag(doc_to_tags, doc_id, tag_id) ==
    IF doc_id = INVALID_DOC_ID \/ tag_id = INVALID_TAG_ID THEN doc_to_tags
    ELSE [GrowTo(doc_to_tags, doc_id + 1, << >>) EXCEPT ![doc_id + 1] = Append(@, tag_id)]

\* ForwardIndex::getTags
getTags(doc_to_tags, doc_id) ==
    IF doc_id = INVALID_DOC_ID \/ doc_id >= Len(doc_to_tags) THEN << >>
    ELSE doc_to_tags[doc_id + 1]

-----------------------------------------------------------------------------
(* core/inverted_index.cpp                                                 *)

\* mutant: the slot array grows by one slot even when the slot exists
ensureTagCapacity_AlwaysGrow(tag_to_bitmap, tag_id) ==
    IF tag_id = INVALID_TAG_ID THEN [ok |-> FALSE, v |-> tag_to_bitmap]
    ELSE [ok |-> TRUE,
          v  |-> GrowTo(tag_to_bitmap,
                        IF tag_id < Len(tag_to_bitmap) THEN Len(tag_to_bitmap) + 1
                        ELSE tag_id + 1, {})]

\* InvertedIndex::ensureTagCapacity: whether the slot exists afterwards, and
\* the slot array afterwards
ensureTagCapacity(tag_to_bitmap, tag_id) ==
    IF tag_id = INVALID_TAG_ID THEN [ok |-> FALSE, v |-> tag_to_bitmap]
    ELSE [ok |-> TRUE, v |-> GrowTo(tag_to_bitmap, tag_id + 1, {})]

\* mutant: the slot array is grown before the document id is looked at
add_GrowsForInvalidDoc(tag_to_bitmap, doc_id, tag_id) ==
    LET cap == ensureTagCapacity(tag_to_bitmap, tag_id)
    IN  IF ~cap.ok THEN tag_to_bitmap
        ELSE IF doc_id = INVALID_DOC_ID THEN cap.v
        ELSE [cap.v EXCEPT ![tag_id + 1] = @ \cup {doc_id}]

\* InvertedIndex::add
add(tag_to_bitmap, doc_id, tag_id) ==
    IF doc_id = INVALID_DOC_ID THEN tag_to_bitmap
    ELSE LET cap == ensureTagCapacity(tag_to_bitmap, tag_id)
         IN  IF ~cap.ok THEN tag_to_bitmap
             ELSE [cap.v EXCEPT ![tag_id + 1] = @ \cup {doc_id}]

\* mutant: a missing tag is reported as a tag with an empty bitmap
getBitmap_EmptyForMissing(tag_to_bitmap, tag_id) ==
    IF tag_id = INVALID_TAG_ID \/ tag_id >= Len(tag_to_bitmap)
    THEN [has |-> TRUE, bitmap |-> {}]
    ELSE [has |-> TRUE, bitmap |-> tag_to_bitmap[tag_id + 1]]

\* mutant: the last slot is reported as absent
getBitmap_LastSlotAbsent(tag_to_bitmap, tag_id) ==
    IF tag_id = INVALID_TAG_ID \/ tag_id + 1 >= Len(tag_to_bitmap)
    THEN [has |-> FALSE, bitmap |-> {}]
    ELSE [has |-> TRUE, bitmap |-> tag_to_bitmap[tag_id + 1]]

\* InvertedIndex::getBitmap: std::nullopt is modelled by has = FALSE
getBitmap(tag_to_bitmap, tag_id) ==
    IF tag_id = INVALID_TAG_ID \/ tag_id >= Len(tag_to_bitmap)
    THEN [has |-> FALSE, bitmap |-> {}]
    ELSE [has |-> TRUE, bitmap |-> tag_to_bitmap[tag_id + 1]]

getCardinality(tag_to_bitmap, tag_id) ==
    LET bitmap_opt == getBitmap(tag_to_bitmap, tag_id)
    IN  IF bitmap_opt.has THEN Cardinality(bitmap_opt.bitmap) ELSE 0


\* the union of the bitmaps of the valid tags among tag_ids[i..], computed
\* after the label handle_andnot
RECURSIVE right_side(_, _, _)
right_side(tag_to_bitmap, tag_ids, i) ==
    IF i > Len(tag_ids) THEN {}
    ELSE LET next_bitmap_opt == getBitmap(tag_to_bitmap, tag_ids[i])
         IN  (IF next_bitmap_opt.has THEN next_bitmap_opt.bitmap ELSE {})
             \cup right_side(tag_to_bitmap, tag_ids, i + 1)

\* mutant: only the second tag is taken off the first bitmap
handle_andnot_SecondOnly(tag_to_bitmap, tag_ids, result) ==
    IF Len(tag_ids) > 1
    THEN result \ (IF getBitmap(tag_to_bitmap, tag_ids[2]).has
                   THEN getBitmap(tag_to_bitmap, tag_ids[2]).bitmap ELSE {})
    ELSE result

\* the code from the label handle_andnot to the return
handle_andnot(tag_to_bitmap, tag_ids, result) ==
    IF Len(tag_ids) > 1 THEN result \ right_side(tag_to_bitmap, tag_ids, 2) ELSE result

\* mutant: |= computed as ^=
applyOp_OrAsXor(op, result, next_bitmap) ==
    CASE op = "AND" -> result \cap next_bitmap
      [] op = "OR"  -> (result \ next_bitmap) \cup (next_bitmap \ result)
      [] op = "XOR" -> (result \ next_bitmap) \cup (next_bitmap \ result)

\* mutant: &= leaves the running result as it is
applyOp_AndKeepsLeft(op, result, next_bitmap) ==
    CASE op = "AND" -> result
      [] op = "OR"  -> result \cup next_bitmap
      [] op = "XOR" -> (result \ next_bitmap) \cup (next_bitmap \ result)

\* mutant: ^= computed as -=
applyOp_XorAsDifference(op, result, next_bitmap) ==
    CASE op = "AND" -> result \cap next_bitmap
      [] op = "OR"  -> result \cup next_bitmap
      [] op = "XOR" -> result \ next_bitmap

\* mutant: &= computed as |=
applyOp_AndAsOr(op, result, next_bitmap) ==
    CASE op = "AND" -> result \cup next_bitmap
      [] op = "OR"  -> result \cup next_bitmap
      [] op = "XOR" -> (result \ next_bitmap) \cup (next_bitmap \ result)

\* mutant: ^= computed as |=
applyOp_XorAsOr(op, result, next_bitmap) ==
    CASE op = "AND" -> result \cap next_bitmap
      [] op = "OR"  -> result \cup next_bitmap
      [] op = "XOR" -> result \cup next_bitmap

\* roaring's in-place operators &=, |=, ^=
applyOp(op, result, next_bitmap) ==
    CASE op = "AND" -> result \cap next_bitmap
      [] op = "OR"  -> result \cup next_bitmap
      [] op = "XOR" -> (result \ next_bitmap) \cup (next_bitmap \ result)

\* the loop of performOperation over tag_ids[i..] with the running result
RECURSIVE operationLoop(_, _, _, _, _)
operationLoop(tag_to_bitmap, tag_ids, op, i, result) ==
    IF i > Len(tag_ids)
    THEN IF op = "ANDNOT" THEN handle_andnot(tag_to_bitmap, tag_ids, result) ELSE result
    ELSE LET next_bitmap_opt == getBitmap(tag_to_bitmap, tag_ids[i])
         IN  IF ~next_bitmap_opt.has
             THEN IF op = "AND" THEN {}
                  ELSE operationLoop(tag_to_bitmap, tag_ids, op, i + 1, result)
             ELSE IF op = "ANDNOT" THEN handle_andnot(tag_to_bitmap, tag_ids, result)
             ELSE LET r == applyOp(op, result, next_bitmap_opt.bitmap)
                  IN  IF op = "AND" /\ r = {} THEN {}
                      ELSE operationLoop(tag_to_bitmap, tag_ids, op, i + 1, r)

\* InvertedIndex::performOperation
performOperation(tag_to_bitmap, tag_ids, op) ==
    IF tag_ids = << >> THEN {}
    ELSE LET first_bitmap_opt == getBitmap(tag_to_bitmap, tag_ids[1])
         IN  IF ~first_bitmap_opt.has THEN {}
             ELSE operationLoop(tag_to_bitmap, tag_ids, op, 2, first_bitmap_opt.bitmap)

\* InvertedIndex::runOptimize and shrinkToFit change the layout of the
\* bitmaps and the reserve of the vector, not the sets they hold
runOptimize(tag_to_bitmap) == tag_to_bitmap

shrinkToFit(tag_to_bitmap) == tag_to_bitmap

-----------------------------------------------------------------------------
(* core/index_manager.cpp                                                  *)

\* the elements of a set of ids in ascending order (iteration order of a
\* roaring bitmap and of a std::set)
RECURSIVE Ascending(_)
Ascending(S) ==
    IF S = {} THEN << >>
    ELSE LET lo == CHOOSE x \in S : \A y \in S : x <= y
         IN  << lo >> \o Ascending(S \ {lo})

SeqToSet(q) == {q[i] : i \in 1..Len(q)}

\* step 2 of processParsedLine: the tags of the record are interned in order
RECURSIVE internTags(_, _, _, _)
internTags(m, tags_str, i, tag_ids) ==
    IF i > Len(tags_str) THEN [m |-> m, tag_ids |-> tag_ids]
    ELSE LET r == getTagId(m, tags_str[i])
         IN  internTags(r.m, tags_str, i + 1,
                        IF r.id # INVALID_TAG_ID THEN Append(tag_ids, r.id) ELSE tag_ids)

\* step 4 of processParsedLine
RECURSIVE addAll(_, _, _, _)
addAll(tag_to_bitmap, doc_id, tag_ids, i) ==
    IF i > Len(tag_ids) THEN tag_to_bitmap
    ELSE addAll(add(tag_to_bitmap, doc_id, tag_ids[i]), doc_id, tag_ids, i + 1)

\* mutant: the strings interned for the record are not kept
processParsedLine_DictionaryNotKept(st, id_str, tags_str) ==
    LET d == getId(st.m, id_str)
    IN  IF d.id = INVALID_DOC_ID THEN st
        ELSE LET t == internTags(d.m, tags_str, 1, << >>)
                 fwd_tags == Ascending(SeqToSet(t.tag_ids))
             IN  [m   |-> st.m,
                  fwd |-> addTags(st.fwd, d.id, fwd_tags),
                  inv |-> addAll(st.inv, d.id, t.tag_ids, 1)]

\* mutant: step 4 is left out, the inverted index is not updated
processParsedLine_NoInverted(st, id_str, tags_str) ==
    LET d == getId(st.m, id_str)
    IN  IF d.id = INVALID_DOC_ID THEN st
        ELSE LET t == internTags(d.m, tags_str, 1, << >>)
                 fwd_tags == Ascending(SeqToSet(t.tag_ids))
             IN  [m   |-> t.m,
                  fwd |-> addTags(st.fwd, d.id, fwd_tags),
                  inv |-> st.inv]

\* IndexManager::processParsedLine on st = [m, fwd, inv]
processParsedLine(st, id_str, tags_str) ==
    LET d == getId(st.m, id_str)
    IN  IF d.id = INVALID_DOC_ID THEN st
        ELSE LET t == internTags(d.m, tags_str, 1, << >>)
                 fwd_tags == Ascending(SeqToSet(t.tag_ids))
             IN  [m   |-> t.m,
                  fwd |-> addTags(st.fwd, d.id, fwd_tags),
                  inv |-> addAll(st.inv, d.id, t.tag_ids, 1)]

\* the callback applied to the records of one pass, in order
RECURSIVE processAll(_, _)
processAll(st, records) ==
    IF records = << >> THEN st
    ELSE processAll(processParsedLine(st, Head(records).id, Head(records).tags),
                    Tail(records))

DigitChars == << "0", "1", "2", "3", "4", "5", "6", "7", "8", "9" >>

IsDigit(c) == \E d \in 1..10 : DigitChars[d] = c

DigitValue(c) == (CHOOSE d \in 1..10 : DigitChars[d] = c) - 1

\* operator<<(FileOffset): the decimal text of n
RECURSIVE formatOffset(_)
formatOffset(n) ==
    IF n < 10 THEN << DigitChars[n + 1] >>
    ELSE formatOffset(n \div 10) \o << DigitChars[(n % 10) + 1] >>

\* the value of the digits text[i..j], most significant first
RECURSIVE digitsValue(_, _, _)
digitsValue(text, i, j) ==
    IF j < i THEN 0 ELSE 10 * digitsValue(text, i, j - 1) + DigitValue(text[j])

\* operator>>(FileOffset&) on the text of a file, as std::num_get reads an
\* unsigned integer: leading whitespace is skipped, one sign is accepted,
\* then the longest run of digits is read.  fail is set when there is no
\* digit (the value stored is 0) or when the digits exceed the largest
\* FileOffset (the value stored is that largest value); a minus sign negates
\* the value modulo OffsetWrap; eof is set when the end of the text was
\* reached.
extractOffset(text) ==
    LET skip   == {i \in 1..Len(text) : ~is_whitespace(text[i])}
        sign   == IF skip = {} THEN Len(text) + 1
                  ELSE CHOOSE i \in skip : \A j \in skip : i <= j
        signed == sign <= Len(text) /\ text[sign] \in {"+", "-"}
        first  == IF signed THEN sign + 1 ELSE sign
        stop   == {i \in first..Len(text) : ~IsDigit(text[i])}
        last   == IF stop = {} THEN Len(text)
                  ELSE (CHOOSE i \in stop : \A j \in stop : i <= j) - 1
        digits == digitsValue(text, first, last)
    IN  [value |-> IF last < first THEN 0
                   ELSE IF digits > OffsetWrap - 1 THEN OffsetWrap - 1
                   ELSE IF signed /\ text[sign] = "-" THEN (OffsetWrap - digits) % OffsetWrap
                   ELSE digits,
         fail  |-> last < first \/ digits > OffsetWrap - 1,
         eof   |-> last = Len(text)]

AbsentFile == [exists |-> FALSE, text |-> << >>]

\* IndexManager::readLastOffset
readLastOffset(file) ==
    IF ~file.exists THEN 0
    ELSE LET r == extractOffset(file.text)
         IN  IF r.fail /\ ~r.eof THEN 0 ELSE r.value

\* IndexManager::writeLastOffset with the outcome of the file system:
\*   "ok": the offset is written; "open_fail": the file could not be opened
\*   and is as before; "write_fail": the file was truncated, nothing written
writeLastOffset(file, offset, outcome) ==
    CASE outcome = "ok"         -> [ret |-> TRUE,
                                    file |-> [exists |-> TRUE, text |-> formatOffset(offset)]]
      [] outcome = "open_fail"  -> [ret |-> FALSE, file |-> file]
      [] outcome = "write_fail" -> [ret |-> FALSE,
                                    file |-> [exists |-> TRUE, text |-> << >>]]

\* mutant: a failed write of the status file fails the pass
afterWriteLastOffset_Fatal(written) == written

\* the end of loadIncremental: a failed write of the status file is logged
\* and the call returns true all the same
afterWriteLastOffset(written) == TRUE

\* step 1 of queryTags: the tag strings are turned into ids with getTagId;
\* early = TRUE when the loop returns the empty result at once
RECURSIVE queryTagIds(_, _, _, _, _)
queryTagIds(m, tags, op, i, query_tag_ids) ==
    IF i > Len(tags) THEN [m |-> m, ids |-> query_tag_ids, early |-> FALSE]
    ELSE LET r == getTagId(m, tags[i])
         IN  IF r.id # INVALID_TAG_ID
             THEN queryTagIds(r.m, tags, op, i + 1, Append(query_tag_ids, r.id))
             ELSE IF op = "AND" \/ (op = "ANDNOT" /\ query_tag_ids = << >>)
                  THEN [m |-> r.m, ids |-> query_tag_ids, early |-> TRUE]
                  ELSE queryTagIds(r.m, tags, op, i + 1, query_tag_ids)

\* step 3 of queryTags: ids to strings, ids without a string are dropped
RECURSIVE docStrings(_, _)
docStrings(m, doc_ids) ==
    IF doc_ids = << >> THEN << >>
    ELSE LET str_id == getStringId(m, Head(doc_ids))
         IN  (IF str_id # << >> THEN << str_id >> ELSE << >>)
             \o docStrings(m, Tail(doc_ids))

\* mutant: the result bitmap is walked from its largest id down
queryTags_Descending(m, tag_to_bitmap, tags, op) ==
    IF tags = << >> THEN [result |-> << >>, m |-> m]
    ELSE LET q == queryTagIds(m, tags, op, 1, << >>)
             up == Ascending(performOperation(tag_to_bitmap, q.ids, op))
         IN  IF q.early THEN [result |-> << >>, m |-> q.m]
             ELSE IF q.ids = << >> /\ op # "AND" THEN [result |-> << >>, m |-> q.m]
             ELSE [result |-> docStrings(q.m, [i \in 1..Len(up) |-> up[Len(up) + 1 - i]]),
                   m |-> q.m]

\* IndexManager::queryTags: the list returned and the mapping afterwards
queryTags(m, tag_to_bitmap, tags, op) ==
    IF tags = << >> THEN [result |-> << >>, m |-> m]
    ELSE LET q == queryTagIds(m, tags, op, 1, << >>)
         IN  IF q.early THEN [result |-> << >>, m |-> q.m]
             ELSE IF q.ids = << >> /\ op # "AND" THEN [result |-> << >>, m |-> q.m]
             ELSE [result |-> docStrings(q.m,
                                 Ascending(performOperation(tag_to_bitmap, q.ids, op))),
                   m |-> q.m]

RECURSIVE tagStrings(_, _)
tagStrings(m, tag_ids) ==
    IF tag_ids = << >> THEN << >>
    ELSE LET tag_str == getStringTag(m, Head(tag_ids))
         IN  (IF tag_str # << >> THEN << tag_str >> ELSE << >>)
             \o tagStrings(m, Tail(tag_ids))

\* IndexManager::getTagsForDocument: the list returned and the mapping afterwards
getTagsForDocument(m, doc_to_tags, doc_id_str) ==
    LET d == getId(m, doc_id_str)
    IN  IF d.id = INVALID_DOC_ID \/ d.id >= Len(doc_to_tags)
        THEN [result |-> << >>, m |-> d.m]
        ELSE [result |-> tagStrings(d.m, getTags(doc_to_tags, d.id)), m |-> d.m]


-----------------------------------------------------------------------------
(* Binary persistence: Mapping, ForwardIndex and InvertedIndex save/load   *)

\* A binary stream is a sequence of cells.  A cell holds IdBits bits, so a
\* uint32_t id is one cell; a uint64_t is WordCells cells, least significant
\* first; a character of a string is one cell.

\* the only element of a one-element set; in { e(x) : x \in {v} } the
\* value v is computed once, however often e uses x
The(S) == CHOOSE y \in S : TRUE

\* mutant: the cells of an integer are written most significant first
RECURSIVE encode_BigEndian(_, _)
encode_BigEndian(n, w) ==
    IF w = 0 THEN << >> ELSE encode_BigEndian(n \div IdWrap, w - 1) \o << n % IdWrap >>

\* write_binary of a w-cell unsigned integer
RECURSIVE encode(_, _)
encode(n, w) == IF w = 0 THEN << >> ELSE << n % IdWrap >> \o encode(n \div IdWrap, w - 1)

\* the value of the cells of an unsigned integer
RECURSIVE decode(_)
decode(cells) ==
    IF cells = << >> THEN 0 ELSE Head(cells) + IdWrap * decode(Tail(cells))

\* read_binary of a w-cell integer at position pos (0-based) of stream `is`:
\* ok is is.good() && gcount == sizeof(T); gcount is the cells obtained
read_binary(is, pos, w) ==
    LET avail == Len(is) - pos
    IN  IF avail >= w
        THEN [ok |-> TRUE, value |-> decode(SubSeq(is, pos + 1, pos + w)),
              pos |-> pos + w, gcount |-> w]
        ELSE [ok |-> FALSE, value |-> 0, pos |-> Len(is),
              gcount |-> IF avail > 0 THEN avail ELSE 0]

\* write_string: the length, then the characters
write_string(str) == encode(Len(str), WordCells) \o str

\* the byte a std::string holds where resize() added characters that no read
\* filled
NUL == "NUL"

\* read_string at position pos: the string is resized to the length read and
\* filled with the characters the stream still holds
read_string(is, pos) ==
    The({ IF ~len.ok THEN [ok |-> FALSE, str |-> << >>, pos |-> len.pos]
          ELSE IF len.value = 0 THEN [ok |-> TRUE, str |-> << >>, pos |-> len.pos]
          ELSE IF Len(is) - len.pos >= len.value
          THEN [ok |-> TRUE,
                str |-> SubSeq(is, len.pos + 1, len.pos + len.value),
                pos |-> len.pos + len.value]
          ELSE [ok |-> FALSE,
                str |-> [i \in 1..len.value |->
                            IF len.pos + i <= Len(is) THEN is[len.pos + i] ELSE NUL],
                pos |-> Len(is)]
          : len \in { read_binary(is, pos, WordCells) } })

\* the strings of a vector, each written with write_string
RECURSIVE write_strings(_)
write_strings(vec) ==
    IF vec = << >> THEN << >> ELSE write_string(Head(vec)) \o write_strings(Tail(vec))

\* Mapping::save: the two id->string vectors
Mapping_save(m) ==
    encode(Len(m.doc_id_to_string), WordCells) \o write_strings(m.doc_id_to_string)
    \o encode(Len(m.tag_id_to_string), WordCells) \o write_strings(m.tag_id_to_string)

\* one loop of Mapping::load: the strings i..n of a vector already resized to
\* n elements are read from pos; the reverse map gets string -> index
RECURSIVE read_strings(_, _, _, _, _, _)
read_strings(is, pos, i, n, vec, map) ==
    IF i > n THEN [ok |-> TRUE, vec |-> vec, map |-> map, pos |-> pos]
    ELSE The({ IF ~r.ok
               THEN [ok |-> FALSE, vec |-> [vec EXCEPT ![i] = r.str],
                     map |-> map, pos |-> r.pos]
               ELSE read_strings(is, r.pos, i + 1, n, [vec EXCEPT ![i] = r.str],
                                 MapPut(map, r.str, i - 1))
               : r \in { read_string(is, pos) } })

\* the part of Mapping::load after the document strings were read
Mapping_loadTags(is, withDocs, pos) ==
    The({ IF ~tag_vec_size.ok THEN [ret |-> FALSE, m |-> withDocs]
          ELSE The({ [ret |-> tags.ok,
                      m   |-> [withDocs EXCEPT !.tag_id_to_string = tags.vec,
                                               !.string_to_tag_id = tags.map]]
                     : tags \in { read_strings(is, tag_vec_size.pos, 1,
                                               tag_vec_size.value,
                                               [i \in 1..tag_vec_size.value |-> << >>],
                                               << >>) } })
          : tag_vec_size \in { read_binary(is, pos, WordCells) } })

\* Mapping::load: the value returned and the mapping afterwards
Mapping_load(is) ==
    The({ IF ~doc_vec_size.ok
          THEN [ret |-> doc_vec_size.gcount = 0, m |-> EmptyMapping]
          ELSE The({ IF ~docs.ok
                     THEN [ret |-> FALSE,
                           m   |-> [EmptyMapping EXCEPT !.doc_id_to_string = docs.vec,
                                                        !.string_to_doc_id = docs.map]]
                     ELSE Mapping_loadTags(is,
                              [EmptyMapping EXCEPT !.doc_id_to_string = docs.vec,
                                                   !.string_to_doc_id = docs.map],
                              docs.pos)
                     : docs \in { read_strings(is, doc_vec_size.pos, 1,
                                               doc_vec_size.value,
                                               [i \in 1..doc_vec_size.value |-> << >>],
                                               << >>) } })
          : doc_vec_size \in { read_binary(is, 0, WordCells) } })

\* the tag ids of one slot, each written with write_binary
RECURSIVE write_ids(_)
write_ids(ids) ==
    IF ids = << >> THEN << >> ELSE encode(Head(ids), 1) \o write_ids(Tail(ids))

\* the slots of the forward index: the number of tags, then the tags
RECURSIVE write_slots(_)
write_slots(doc_to_tags) ==
    IF doc_to_tags = << >> THEN << >>
    ELSE encode(Len(Head(doc_to_tags)), WordCells) \o write_ids(Head(doc_to_tags))
         \o write_slots(Tail(doc_to_tags))

\* ForwardIndex::save
ForwardIndex_save(doc_to_tags) ==
    encode(Len(doc_to_tags), WordCells) \o write_slots(doc_to_tags)

\* the inner loop of ForwardIndex::load: tags j..num_tags of one slot
RECURSIVE read_ids(_, _, _, _, _)
read_ids(is, pos, j, num_tags, ids) ==
    IF j > num_tags THEN [ok |-> TRUE, ids |-> ids, pos |-> pos]
    ELSE The({ IF ~tag_id.ok THEN [ok |-> FALSE, ids |-> ids, pos |-> tag_id.pos]
               ELSE read_ids(is, tag_id.pos, j + 1, num_tags,
                             Append(ids, tag_id.value))
               : tag_id \in { read_binary(is, pos, 1) } })

\* one slot of ForwardIndex::load: the number of tags, then the tags
read_slot(is, pos) ==
    The({ IF ~num_tags.ok THEN [ok |-> FALSE, ids |-> << >>, pos |-> num_tags.pos]
          ELSE read_ids(is, num_tags.pos, 1, num_tags.value, << >>)
          : num_tags \in { read_binary(is, pos, WordCells) } })

\* the outer loop of ForwardIndex::load: slots i..num_docs of a vector
\* already resized to num_docs slots
RECURSIVE read_slots(_, _, _, _, _)
read_slots(is, pos, i, num_docs, vec) ==
    IF i > num_docs THEN [ok |-> TRUE, vec |-> vec]
    ELSE The({ IF ~r.ok THEN [ok |-> FALSE, vec |-> [vec EXCEPT ![i] = r.ids]]
               ELSE read_slots(is, r.pos, i + 1, num_docs, [vec EXCEPT ![i] = r.ids])
               : r \in { read_slot(is, pos) } })

\* ForwardIndex::load: the value returned and the slots afterwards
ForwardIndex_load(is) ==
    The({ IF ~num_docs.ok THEN [ret |-> num_docs.gcount = 0, fwd |-> << >>]
          ELSE The({ [ret |-> r.ok, fwd |-> r.vec]
                     : r \in { read_slots(is, num_docs.pos, 1, num_docs.value,
                                          [i \in 1..num_docs.value |-> << >>]) } })
          : num_docs \in { read_binary(is, 0, WordCells) } })

\* roaring::Roaring::write(buf, portable): the bitmap describes itself; the
\* model writes the cardinality and the ids in ascending order
Roaring_write(bitmap) == encode(Cardinality(bitmap), 1) \o Ascending(bitmap)

\* roaring::Roaring::getSizeInBytes(portable)
getSizeInBytes(bitmap) == 1 + Cardinality(bitmap)

\* roaring::Roaring::readSafe on a buffer: an exception is modelled by
\* ok = FALSE
readSafe(buffer) ==
    IF buffer = << >> \/ Len(buffer) # 1 + decode(<< buffer[1] >>)
    THEN [ok |-> FALSE, bitmap |-> {}]
    ELSE [ok |-> TRUE, bitmap |-> SeqToSet(Tail(buffer))]

\* the slots of the inverted index: the size of the buffer, then the buffer
RECURSIVE write_bitmaps(_)
write_bitmaps(tag_to_bitmap) ==
    IF tag_to_bitmap = << >> THEN << >>
    ELSE LET expected_size == getSizeInBytes(Head(tag_to_bitmap))
         IN  encode(expected_size, 1)
             \o (IF expected_size > 0 THEN Roaring_write(Head(tag_to_bitmap)) ELSE << >>)
             \o write_bitmaps(Tail(tag_to_bitmap))

\* InvertedIndex::save
InvertedIndex_save(tag_to_bitmap) ==
    encode(Len(tag_to_bitmap), WordCells) \o write_bitmaps(tag_to_bitmap)

\* one slot of InvertedIndex::load: the size of the buffer, the buffer, and
\* readSafe on it; a size of 0 leaves the empty bitmap
read_bitmap(is, pos) ==
    The({ IF ~expected_size.ok THEN [ok |-> FALSE, bitmap |-> {}, pos |-> Len(is)]
          ELSE IF expected_size.value = 0
          THEN [ok |-> TRUE, bitmap |-> {}, pos |-> expected_size.pos]
          ELSE IF Len(is) - expected_size.pos < expected_size.value
          THEN [ok |-> FALSE, bitmap |-> {}, pos |-> Len(is)]
          ELSE The({ [ok |-> r.ok, bitmap |-> r.bitmap,
                      pos |-> expected_size.pos + expected_size.value]
                     : r \in { readSafe(SubSeq(is, expected_size.pos + 1,
                                   expected_size.pos + expected_size.value)) } })
          : expected_size \in { read_binary(is, pos, 1) } })

\* the loop of InvertedIndex::load: slots i..num_bitmaps of a vector already
\* resized to num_bitmaps empty bitmaps
RECURSIVE read_bitmaps(_, _, _, _, _)
read_bitmaps(is, pos, i, num_bitmaps, vec) ==
    IF i > num_bitmaps THEN [ok |-> TRUE, vec |-> vec]
    ELSE The({ IF ~r.ok THEN [ok |-> FALSE, vec |-> vec]
               ELSE read_bitmaps(is, r.pos, i + 1, num_bitmaps,
                                 [vec EXCEPT ![i] = r.bitmap])
               : r \in { read_bitmap(is, pos) } })

\* mutant: the slots the index held beyond those of the file are kept
InvertedIndex_load_NoClear(tag_to_bitmap, is) ==
    The({ IF ~num_bitmaps.ok
          THEN IF num_bitmaps.gcount = 0 THEN [ret |-> TRUE, inv |-> << >>]
               ELSE [ret |-> FALSE, inv |-> tag_to_bitmap]
          ELSE The({ [ret |-> r.ok,
                      inv |-> r.vec \o SubSeq(tag_to_bitmap, Len(r.vec) + 1,
                                              Len(tag_to_bitmap))]
                     : r \in { read_bitmaps(is, num_bitmaps.pos, 1, num_bitmaps.value,
                                            [i \in 1..num_bitmaps.value |-> {}]) } })
          : num_bitmaps \in { read_binary(is, 0, WordCells) } })

\* InvertedIndex::load on an index holding tag_to_bitmap: the value returned
\* and the slots afterwards
InvertedIndex_load(tag_to_bitmap, is) ==
    The({ IF ~num_bitmaps.ok
          THEN IF num_bitmaps.gcount = 0 THEN [ret |-> TRUE, inv |-> << >>]
               ELSE [ret |-> FALSE, inv |-> tag_to_bitmap]
          ELSE The({ [ret |-> r.ok, inv |-> r.vec]
                     : r \in { read_bitmaps(is, num_bitmaps.pos, 1, num_bitmaps.value,
                                            [i \in 1..num_bitmaps.value |-> {}]) } })
          : num_bitmaps \in { read_binary(is, 0, WordCells) } })

-----------------------------------------------------------------------------
(* The manager and its files                                               *)

\* mutant: every path is reported as a regular file
fileExists_Always(file) == TRUE

\* utils::fileExists
fileExists(file) == file.exists

\* utils::getFileSize
getFileSize(file) == IF file.exists THEN Len(file.text) ELSE 0

\* mutant: a file as long as the offset counts as new data
upToDate_Strict(current_file_size, offset) == current_file_size < offset

\* the test "no new data" of loadIncremental
upToDate(current_file_size, offset) == current_file_size <= offset

\* mutant: the offset moves only when a status file is already there
finalOffset_NeedsStatusFile(current_file_size) ==
    IF status_file.exists THEN current_file_size ELSE last_processed_offset_

\* the offset loadIncremental stores after parsing: when the loop of
\* parseStream ends the stream has failed (end of file, a failed seek or a bad
\* stream), tellg() yields -1 and the size read before opening is used
finalOffset(current_file_size) == current_file_size

Ops == {"AND", "OR", "XOR", "ANDNOT"}

\* whole records, each ending with a newline
Records ==
    { << "x", "|", "a", "\n" >>,
      << "y", "|", "a", "|", "b", "\n" >>,
      << "x", "|", "b", "|", "b", "\n" >>,
      << "y", " ", "|", "|", "b", "\n" >> }

\* what the data file grows by when it may grow by less than a line: whole
\* records, a record without its newline, and bytes that complete a line
\* and add a record
Pieces ==
    { << "x", "|", "a", "\n" >>,
      << "y", "|", "a", "|", "b", "\n" >>,
      << "y", "|", "a" >>,
      << "b", "\n", "x", "|", "b", "\n" >> }

\* the tag strings and the tag lists of the queries
QueryTagStrings == { << >>, << "a" >>, << "b" >> }

QueryTagLists == UNION { [1..n -> QueryTagStrings] : n \in 1..MaxQueryLen }

\* the document strings asked of getTagsForDocument
QueryDocStrings == { << >>, << "x" >>, << "y" >> }

Faults == {"none", "open", "seek", "bad"}

WriteOutcomes == {"ok", "open_fail", "write_fail"}

\* no checkpoint directory on disk
EmptyIndices == [m |-> EmptyMapping, fwd |-> << >>, inv |-> << >>]

\* `original` is history: the indices of the manager that wrote the files
AbsentCheckpoint ==
    [exists |-> FALSE, mapping |-> << >>, forward |-> << >>, inverted |-> << >>,
     original |-> EmptyIndices]

\* IndexManager::saveIndex: the three files are written in the order
\* dictionary, forward index, inverted index
saveIndex(st) ==
    [exists |-> TRUE,
     mapping |-> Mapping_save(st.m),
     forward |-> ForwardIndex_save(st.fwd),
     inverted |-> InvertedIndex_save(st.inv),
     original |-> st]

\* what a read of a file yields when the file ends after `cut` cells
Truncated(stream, cut) == IF cut < Len(stream) THEN SubSeq(stream, 1, cut) ELSE stream

\* IndexManager::loadIndex: the three files are read in the order of
\* saveIndex; when a file is missing or a component fails to load, the
\* manager is left cleared.  `which` names the file that ends after `cut`
\* cells ("none": every file is whole).
loadIndex(st, dir, which, cut) ==
    IF ~dir.exists THEN [ret |-> FALSE, st |-> EmptyIndices]
    ELSE The({ IF ~m.ret THEN [ret |-> FALSE, st |-> EmptyIndices]
               ELSE The({ IF ~f.ret THEN [ret |-> FALSE, st |-> EmptyIndices]
                          ELSE The({ IF ~i.ret THEN [ret |-> FALSE, st |-> EmptyIndices]
                                     ELSE [ret |-> TRUE,
                                           st |-> [m |-> m.m, fwd |-> f.fwd,
                                                   inv |-> i.inv]]
                                     : i \in { InvertedIndex_load(st.inv,
                                           IF which = "inverted"
                                           THEN Truncated(dir.inverted, cut)
                                           ELSE dir.inverted) } })
                          : f \in { ForwardIndex_load(
                                IF which = "forward" THEN Truncated(dir.forward, cut)
                                ELSE dir.forward) } })
               : m \in { Mapping_load(IF which = "mapping"
                                      THEN Truncated(dir.mapping, cut)
                                      ELSE dir.mapping) } })

\* a newly constructed second manager; log lists the passes it made
FreshTwin ==
    [m |-> EmptyMapping, fwd |-> << >>, inv |-> << >>, offset |-> 0, log |-> << >>]

\* the threads of the process and a thread outside the manager
Threads == 1..NumThreads

IdleThread == [pc |-> "idle"]

\* a manager constructed with no status file, no data file and no checkpoint
\* on disk
Init ==
    /\ mapping_ = EmptyMapping
    /\ forward_index_ = << >>
    /\ inverted_index_ = << >>
    /\ status_file = AbsentFile
    /\ last_processed_offset_ = readLastOffset(AbsentFile)
    /\ data_file = AbsentFile
    /\ lastOp = "new"
    /\ lastArg = << >>
    /\ lastRet = TRUE
    /\ ingested = << >>
    /\ passes = << >>
    /\ seen = [docs |-> << >>, tags |-> << >>]
    /\ checkpoint = AbsentCheckpoint
    /\ threads = [t \in Threads |-> IdleThread]
    /\ twin = FreshTwin

\* the environment appends bytes to the data file, creating it if needed
AppendData(chunk) ==
    /\ Len(data_file.text) + Len(chunk) <= MaxFileLen
    /\ data_file' = [exists |-> TRUE, text |-> data_file.text \o chunk]
    /\ lastOp' = "append"
    /\ lastArg' = << >>
    /\ lastRet' = TRUE
    /\ UNCHANGED << mapping_, forward_index_, inverted_index_,
                    last_processed_offset_, status_file, ingested, passes, seen >>
    /\ UNCHANGED << checkpoint, threads, twin >>

\* IndexManager::loadIncremental; fault, cut and outcome are what the file
\* system does during the call; lastArg records the return statement taken
loadIncremental(fault, cut, outcome) ==
    /\ lastOp' = "load"
    /\ IF ~fileExists(data_file)
       THEN /\ lastRet' = FALSE
            /\ lastArg' = << "absent" >>
            /\ UNCHANGED << mapping_, forward_index_, inverted_index_,
                            last_processed_offset_, status_file, ingested, passes >>
       ELSE LET current_file_size == getFileSize(data_file)
            IN  IF upToDate(current_file_size, last_processed_offset_)
                THEN /\ lastRet' = TRUE
                     /\ lastArg' = << "up_to_date" >>
                     /\ UNCHANGED << mapping_, forward_index_, inverted_index_,
                                     last_processed_offset_, status_file, ingested, passes >>
                ELSE IF fault = "open"
                THEN /\ lastRet' = FALSE
                     /\ lastArg' = << "open_failed" >>
                     /\ UNCHANGED << mapping_, forward_index_, inverted_index_,
                                     last_processed_offset_, status_file, ingested, passes >>
                ELSE LET p  == parseStream(data_file.text, last_processed_offset_, fault, cut)
                         st == processAll([m |-> mapping_, fwd |-> forward_index_,
                                           inv |-> inverted_index_], p.records)
                         new_offset == finalOffset(current_file_size)
                     IN  /\ mapping_' = st.m
                         /\ forward_index_' = st.fwd
                         /\ inverted_index_' = shrinkToFit(runOptimize(st.inv))
                         /\ last_processed_offset_' = new_offset
                         /\ status_file' = writeLastOffset(status_file, new_offset, outcome).file
                         /\ ingested' = ingested \o p.records
                         /\ passes' = Append(passes, [from |-> last_processed_offset_,
                                                      to |-> new_offset, ok |-> p.ret,
                                                      size |-> current_file_size])
                         /\ lastRet' = afterWriteLastOffset(
                                           writeLastOffset(status_file, new_offset, outcome).ret)
                         /\ lastArg' = << "parsed" >>
    /\ UNCHANGED << data_file, seen >>
    /\ UNCHANGED << checkpoint, threads, twin >>

\* IndexManager::queryTags; the list it returns is queryTags(...).result
Query(tags, op) ==
    /\ LET r == queryTags(mapping_, inverted_index_, tags, op)
       IN  /\ mapping_' = r.m
           /\ lastOp' = "query"
           /\ lastArg' = << >>
           /\ lastRet' = TRUE
           /\ UNCHANGED << forward_index_, inverted_index_, last_processed_offset_,
                           status_file, data_file, ingested, passes, seen >>
    /\ UNCHANGED << checkpoint, threads, twin >>

\* IndexManager::getTagsForDocument; the list it returns is
\* getTagsForDocument(...).result
TagsFor(doc_id_str) ==
    /\ LET r == getTagsForDocument(mapping_, forward_index_, doc_id_str)
       IN  /\ mapping_' = r.m
           /\ lastOp' = "tags_for"
           /\ lastArg' = << >>
           /\ lastRet' = TRUE
           /\ UNCHANGED << forward_index_, inverted_index_, last_processed_offset_,
                           status_file, data_file, ingested, passes, seen >>
    /\ UNCHANGED << checkpoint, threads, twin >>

\* The manager in use: records are appended to the data file, ingested, and
\* the index is queried; the file system does not fail.
Next ==
    \/ \E chunk \in Records : AppendData(chunk)
    \/ loadIncremental("none", 0, "ok")
    \/ \E tags \in QueryTagLists, op \in Ops : Query(tags, op)
    \/ \E doc_id_str \in QueryDocStrings : TagsFor(doc_id_str)

Spec == Init /\ [][Next]_vars

\* Ingestion alone, on a file system that may fail and a data file that may
\* grow by less than a line.
NextIO ==
    \/ \E chunk \in Pieces : AppendData(chunk)
    \/ \E fault \in Faults, outcome \in WriteOutcomes :
          \E cut \in (IF fault = "bad" THEN 0..NumLines(data_file.text) ELSE {0}) :
              loadIncremental(fault, cut, outcome)

SpecIO == Init /\ [][NextIO]_vars

-----------------------------------------------------------------------------
(* The manager across runs of the program: checkpoint and restart          *)

CheckpointFiles == {"mapping", "forward", "inverted"}

\* the records the runs of the program append
CheckpointRecords ==
    { << "x", "|", "a", "\n" >>,
      << "y", "|", "a", "|", "b", "\n" >> }

\* IndexManager::saveIndex
SaveIndex ==
    /\ checkpoint' = saveIndex([m |-> mapping_, fwd |-> forward_index_,
                                inv |-> inverted_index_])
    /\ lastOp' = "saveIndex"
    /\ lastArg' = << >>
    /\ lastRet' = TRUE
    /\ UNCHANGED << mapping_, forward_index_, inverted_index_, last_processed_offset_,
                    status_file, data_file, ingested, passes, seen, threads, twin >>

\* IndexManager::IndexManager: a new run of the program constructs a manager
\* over the files the previous run left
Construct ==
    /\ mapping_' = EmptyMapping
    /\ forward_index_' = << >>
    /\ inverted_index_' = << >>
    /\ last_processed_offset_' = readLastOffset(status_file)
    /\ lastOp' = "construct"
    /\ lastArg' = << >>
    /\ lastRet' = TRUE
    /\ UNCHANGED << status_file, data_file, ingested, passes, seen, checkpoint, threads, twin >>

\* IndexManager::loadIndex, with the file `which` ending after `cut` cells
LoadIndex(which, cut) ==
    /\ LET r == loadIndex([m |-> mapping_, fwd |-> forward_index_,
                           inv |-> inverted_index_], checkpoint, which, cut)
       IN  /\ mapping_' = r.st.m
           /\ forward_index_' = r.st.fwd
           /\ inverted_index_' = r.st.inv
           /\ lastRet' = r.ret
    /\ lastOp' = "loadIndex"
    /\ lastArg' = << which >>
    /\ UNCHANGED << last_processed_offset_, status_file, data_file, ingested, passes,
                    seen, checkpoint, threads, twin >>

\* the data file is moved away; its bytes are there again when it is
\* re-created (the source is append-only: bytes once written never change)
RemoveData ==
    /\ data_file.exists
    /\ data_file' = [data_file EXCEPT !.exists = FALSE]
    /\ lastOp' = "remove"
    /\ lastArg' = << >>
    /\ lastRet' = TRUE
    /\ UNCHANGED << mapping_, forward_index_, inverted_index_, last_processed_offset_,
                    status_file, ingested, passes, seen, checkpoint, threads, twin >>

\* Runs of the program over the same files: records are appended and
\* ingested, the index is saved, a new run constructs a manager and loads the
\* checkpoint, whole or cut short.
NextCheckpoint ==
    \/ \E chunk \in CheckpointRecords : AppendData(chunk)
    \/ loadIncremental("none", 0, "ok")
    \/ SaveIndex
    \/ Construct
    \/ LoadIndex("none", 0)
    \/ \E which \in CheckpointFiles :
          \E cut \in 0..(Len(checkpoint[which]) - 1) : LoadIndex(which, cut)
    \/ RemoveData

SpecCheckpoint == Init /\ [][NextCheckpoint]_vars

\* Runs of the program that keep no checkpoint: every run constructs a
\* manager over the data file and the status file the previous run left.
NextRestart ==
    \/ \E chunk \in CheckpointRecords : AppendData(chunk)
    \/ loadIncremental("none", 0, "ok")
    \/ Construct
    \/ RemoveData

SpecRestart == Init /\ [][NextRestart]_vars

-----------------------------------------------------------------------------
(* Two managers reading the same data file                                 *)

\* IndexManager::loadIncremental of the second manager, which keeps a status
\* file of its own, when the data file holds bytes it has not read
LoadTwin ==
    /\ fileExists(data_file)
    /\ ~upToDate(getFileSize(data_file), twin.offset)
    /\ LET current_file_size == getFileSize(data_file)
           p  == parseStream(data_file.text, twin.offset, "none", 0)
           st == processAll([m |-> twin.m, fwd |-> twin.fwd, inv |-> twin.inv],
                            p.records)
       IN  twin' = [m      |-> st.m,
                    fwd    |-> st.fwd,
                    inv    |-> shrinkToFit(runOptimize(st.inv)),
                    offset |-> finalOffset(current_file_size),
                    log    |-> Append(twin.log, [from |-> twin.offset,
                                                 size |-> current_file_size])]
    /\ lastOp' = "load_twin"
    /\ lastArg' = << >>
    /\ lastRet' = TRUE
    /\ UNCHANGED << mapping_, forward_index_, inverted_index_, last_processed_offset_,
                    status_file, data_file, ingested, passes, seen, checkpoint,
                    threads >>

\* Two managers, both newly constructed, ingest the records appended to one
\* data file, each at its own times.
NextTwin ==
    \/ \E chunk \in CheckpointRecords : AppendData(chunk)
    \/ loadIncremental("none", 0, "ok")
    \/ LoadTwin

SpecTwin == Init /\ [][NextTwin]_vars

-----------------------------------------------------------------------------
(* The components read back from streams that end early                    *)

\* Mapping::load on the dictionary file ending after `cut` cells
CallMappingLoad(cut) ==
    /\ checkpoint.exists
    /\ LET r == Mapping_load(Truncated(checkpoint.mapping, cut))
       IN  /\ mapping_' = r.m
           /\ lastRet' = r.ret
    /\ lastOp' = "Mapping::load"
    /\ lastArg' = << cut >>
    /\ UNCHANGED << forward_index_, inverted_index_, last_processed_offset_, status_file,
                    data_file, ingested, passes, seen, checkpoint, threads, twin >>

\* ForwardIndex::load on the forward index file ending after `cut` cells
CallForwardLoad(cut) ==
    /\ checkpoint.exists
    /\ LET r == ForwardIndex_load(Truncated(checkpoint.forward, cut))
       IN  /\ forward_index_' = r.fwd
           /\ lastRet' = r.ret
    /\ lastOp' = "ForwardIndex::load"
    /\ lastArg' = << cut >>
    /\ UNCHANGED << mapping_, inverted_index_, last_processed_offset_, status_file,
                    data_file, ingested, passes, seen, checkpoint, threads, twin >>

\* InvertedIndex::load on the inverted index file ending after `cut` cells
CallInvertedLoad(cut) ==
    /\ checkpoint.exists
    /\ LET r == InvertedIndex_load(inverted_index_, Truncated(checkpoint.inverted, cut))
       IN  /\ inverted_index_' = r.inv
           /\ lastRet' = r.ret
    /\ lastOp' = "InvertedIndex::load"
    /\ lastArg' = << cut >>
    /\ UNCHANGED << mapping_, forward_index_, last_processed_offset_, status_file,
                    data_file, ingested, passes, seen, checkpoint, threads, twin >>

\* the records whose ingestion fills the components before a load
CodecRecords ==
    { [id |-> << "x" >>, tags |-> << << "a" >> >>],
      [id |-> << "y" >>, tags |-> << << "a" >>, << "b" >> >>] }

\* the indices of a manager that ingested up to MaxDocId + 1 such records
CodecContents ==
    { processAll(EmptyIndices, recs) :
        recs \in UNION { [1..n -> CodecRecords] : n \in 0..(MaxDocId + 1) } }

\* a manager holding ingested content, next to the files another manager
\* saved
InitCodec ==
    /\ \E held \in CodecContents :
          /\ mapping_ = held.m
          /\ forward_index_ = held.fwd
          /\ inverted_index_ = held.inv
    /\ \E saved \in CodecContents : checkpoint = saveIndex(saved)
    /\ status_file = AbsentFile
    /\ last_processed_offset_ = 0
    /\ data_file = AbsentFile
    /\ lastOp = "new"
    /\ lastArg = << >>
    /\ lastRet = TRUE
    /\ ingested = << >>
    /\ passes = << >>
    /\ seen = [docs |-> << >>, tags |-> << >>]
    /\ threads = [t \in Threads |-> IdleThread]
    /\ twin = FreshTwin

\* Each component is read back from its file, whole or ending after any
\* number of cells.
NextCodec ==
    \/ \E cut \in 0..Len(checkpoint.mapping) : CallMappingLoad(cut)
    \/ \E cut \in 0..Len(checkpoint.forward) : CallForwardLoad(cut)
    \/ \E cut \in 0..Len(checkpoint.inverted) : CallInvertedLoad(cut)

SpecCodec == InitCodec /\ [][NextCodec]_vars

-----------------------------------------------------------------------------
(* Threads sharing one manager under manager_mutex_                        *)

\* A thread is idle or inside one operation of the manager; its record holds
\* the position in the operation and the operation's local variables.  A
\* thread holds manager_mutex_ shared while it is inside a reader operation
\* and exclusively while it is inside loadIncremental.
ReaderPcs == {"q_lookup", "q_push", "q_insert", "q_perform", "c_read"}

WriterPcs == {"l_apply", "l_invert", "l_offset"}

holdsShared(th) == th.pc \in ReaderPcs

holdsUnique(th) == th.pc \in WriterPcs

\* mutant: a shared lock is granted while a writer holds the mutex
canLockShared_Always(ths, t) == TRUE

\* std::shared_lock lock(manager_mutex_) can be taken by thread t
canLockShared(ths, t) == \A u \in Threads \ {t} : ~holdsUnique(ths[u])

\* std::unique_lock lock(manager_mutex_) can be taken by thread t
canLockUnique(ths, t) ==
    \A u \in Threads \ {t} : ~holdsUnique(ths[u]) /\ ~holdsShared(ths[u])

\* the process is running: no data race has ended it
NoCrash == \A t \in Threads : threads[t].pc # "crashed"

\* the tag lists and operators of the queries the threads make
ThreadTagLists == { << << "b" >> >>, << << >>, << "a" >> >> }

ThreadOps == {"AND", "OR"}

\* what an unsynchronised write by thread t can do: alone in the manager it
\* takes effect; with another thread inside the manager it is a data race,
\* which takes effect as in some interleaving or ends the process
RaceOutcomes(t) ==
    IF \E u \in Threads \ {t} : holdsShared(threads[u]) \/ holdsUnique(threads[u])
    THEN {"done", "crash"}
    ELSE {"done"}

\* a step of thread t that changes only the thread itself
ThreadStep(t, th) ==
    /\ threads' = [threads EXCEPT ![t] = th]
    /\ lastOp' = "thread"
    /\ lastArg' = << >>
    /\ lastRet' = TRUE

\* the thread after the loop of queryTags is done with tag i, the ids so far
\* being query_tag_ids
afterTag(th, query_tag_ids) ==
    IF th.i + 1 > Len(th.tags)
    THEN [pc |-> "q_perform", op |-> th.op, ids |-> query_tag_ids]
    ELSE [pc |-> "q_lookup", tags |-> th.tags, op |-> th.op, i |-> th.i + 1,
          ids |-> query_tag_ids]

\* the thread after getTagId returned INVALID_TAG_ID for tag i
afterInvalidTag(th) ==
    IF th.op = "AND" \/ (th.op = "ANDNOT" /\ th.ids = << >>)
    THEN IdleThread
    ELSE afterTag(th, th.ids)

\* queryTags: the shared lock is taken and the loop over the tags starts
BeginQuery(t, tags, op) ==
    /\ NoCrash
    /\ threads[t].pc = "idle"
    /\ canLockShared(threads, t)
    /\ ThreadStep(t, IF tags = << >> THEN IdleThread
                     ELSE [pc |-> "q_lookup", tags |-> tags, op |-> op, i |-> 1,
                           ids |-> << >>])
    /\ UNCHANGED << mapping_, forward_index_, inverted_index_, last_processed_offset_,
                    status_file, data_file, ingested, passes, seen, checkpoint, twin >>

\* Mapping::getTagId up to the decision to insert: the empty check, the
\* lookup in string_to_tag_id_ and the read of tag_id_to_string_.size()
LookupTag(t) ==
    /\ NoCrash
    /\ threads[t].pc = "q_lookup"
    /\ LET th      == threads[t]
           str_tag == th.tags[th.i]
           new_id  == Len(mapping_.tag_id_to_string) % IdWrap
       IN  ThreadStep(t,
               IF str_tag = << >> THEN afterInvalidTag(th)
               ELSE IF str_tag \in DOMAIN mapping_.string_to_tag_id
               THEN afterTag(th, Append(th.ids, mapping_.string_to_tag_id[str_tag]))
               ELSE IF new_id = INVALID_TAG_ID THEN afterInvalidTag(th)
               ELSE [pc |-> "q_push", tags |-> th.tags, op |-> th.op, i |-> th.i,
                     ids |-> th.ids, new_id |-> new_id])
    /\ UNCHANGED << mapping_, forward_index_, inverted_index_, last_processed_offset_,
                    status_file, data_file, ingested, passes, seen, checkpoint, twin >>

\* Mapping::getTagId: tag_id_to_string_.push_back(str_tag)
PushBack(t, outcome) ==
    /\ NoCrash
    /\ threads[t].pc = "q_push"
    /\ outcome \in RaceOutcomes(t)
    /\ LET th == threads[t]
       IN  IF outcome = "crash"
           THEN /\ ThreadStep(t, [pc |-> "crashed"])
                /\ UNCHANGED mapping_
           ELSE /\ mapping_' = [mapping_ EXCEPT !.tag_id_to_string =
                                   Append(@, th.tags[th.i])]
                /\ ThreadStep(t, [th EXCEPT !.pc = "q_insert"])
    /\ UNCHANGED << forward_index_, inverted_index_, last_processed_offset_,
                    status_file, data_file, ingested, passes, seen, checkpoint, twin >>

\* Mapping::getTagId: string_to_tag_id_[str_tag] = new_id, and the return
MapInsert(t, outcome) ==
    /\ NoCrash
    /\ threads[t].pc = "q_insert"
    /\ outcome \in RaceOutcomes(t)
    /\ LET th == threads[t]
       IN  IF outcome = "crash"
           THEN /\ ThreadStep(t, [pc |-> "crashed"])
                /\ UNCHANGED mapping_
           ELSE /\ mapping_' = [mapping_ EXCEPT !.string_to_tag_id =
                                   MapPut(@, th.tags[th.i], th.new_id)]
                /\ ThreadStep(t, afterTag(th, Append(th.ids, th.new_id)))
    /\ UNCHANGED << forward_index_, inverted_index_, last_processed_offset_,
                    status_file, data_file, ingested, passes, seen, checkpoint, twin >>

\* queryTags after the loop: performOperation and the translation of the
\* result read the indices; the list is returned and the lock released
Perform(t) ==
    /\ NoCrash
    /\ threads[t].pc = "q_perform"
    /\ ThreadStep(t, IdleThread)
    /\ UNCHANGED << mapping_, forward_index_, inverted_index_, last_processed_offset_,
                    status_file, data_file, ingested, passes, seen, checkpoint, twin >>

\* getTagCount: the shared lock is taken
BeginTagCount(t) ==
    /\ NoCrash
    /\ threads[t].pc = "idle"
    /\ canLockShared(threads, t)
    /\ ThreadStep(t, [pc |-> "c_read"])
    /\ UNCHANGED << mapping_, forward_index_, inverted_index_, last_processed_offset_,
                    status_file, data_file, ingested, passes, seen, checkpoint, twin >>

\* getTagCount: tag_id_to_string_.size() is read and the lock released
ReadTagCount(t) ==
    /\ NoCrash
    /\ threads[t].pc = "c_read"
    /\ ThreadStep(t, IdleThread)
    /\ UNCHANGED << mapping_, forward_index_, inverted_index_, last_processed_offset_,
                    status_file, data_file, ingested, passes, seen, checkpoint, twin >>

\* loadIncremental up to the first callback: the exclusive lock is taken, the
\* file is checked, opened and parsed; the call returns at once when the file
\* is missing or holds no new data
BeginLoad(t) ==
    /\ NoCrash
    /\ threads[t].pc = "idle"
    /\ canLockUnique(threads, t)
    /\ LET current_file_size == getFileSize(data_file)
           p == parseStream(data_file.text, last_processed_offset_, "none", 0)
       IN  IF ~fileExists(data_file) \/ upToDate(current_file_size, last_processed_offset_)
           THEN /\ threads' = threads
                /\ lastRet' = fileExists(data_file)
           ELSE /\ threads' = [threads EXCEPT ![t] =
                                  [pc |-> IF p.records = << >> THEN "l_offset" ELSE "l_apply",
                                   records |-> p.records, size |-> current_file_size,
                                   from |-> last_processed_offset_]]
                /\ lastRet' = TRUE
    /\ lastOp' = "thread"
    /\ lastArg' = << >>
    /\ UNCHANGED << mapping_, forward_index_, inverted_index_, last_processed_offset_,
                    status_file, data_file, ingested, passes, seen, checkpoint, twin >>

\* processParsedLine, steps 1 to 3: the document and the tags get ids and the
\* forward slot of the document is replaced
ApplyDictionaryAndForward(t) ==
    /\ NoCrash
    /\ threads[t].pc = "l_apply"
    /\ LET th  == threads[t]
           rec == Head(th.records)
           d   == getId(mapping_, rec.id)
           r   == internTags(d.m, rec.tags, 1, << >>)
       IN  IF d.id = INVALID_DOC_ID
           THEN /\ UNCHANGED << mapping_, forward_index_ >>
                /\ ThreadStep(t, [th EXCEPT !.records = Tail(@),
                                            !.pc = IF Tail(th.records) = << >>
                                                   THEN "l_offset" ELSE "l_apply"])
           ELSE /\ mapping_' = r.m
                /\ forward_index_' = addTags(forward_index_, d.id,
                                             Ascending(SeqToSet(r.tag_ids)))
                /\ ThreadStep(t, [pc |-> "l_invert", records |-> th.records,
                                  size |-> th.size, from |-> th.from,
                                  doc_id |-> d.id, tag_ids |-> r.tag_ids])
    /\ UNCHANGED << inverted_index_, last_processed_offset_, status_file, data_file,
                    ingested, passes, seen, checkpoint, twin >>

\* processParsedLine, step 4: the document is added to the bitmap of each tag
ApplyInverted(t) ==
    /\ NoCrash
    /\ threads[t].pc = "l_invert"
    /\ LET th == threads[t]
       IN  /\ inverted_index_' = addAll(inverted_index_, th.doc_id, th.tag_ids, 1)
           /\ ingested' = Append(ingested, Head(th.records))
           /\ ThreadStep(t, [pc |-> IF Tail(th.records) = << >> THEN "l_offset"
                                    ELSE "l_apply",
                             records |-> Tail(th.records), size |-> th.size,
                             from |-> th.from])
    /\ UNCHANGED << mapping_, forward_index_, last_processed_offset_, status_file,
                    data_file, passes, seen, checkpoint, twin >>

\* loadIncremental after parsing: the offset is stored and written to the
\* status file, the call returns and the lock is released
StoreOffset(t) ==
    /\ NoCrash
    /\ threads[t].pc = "l_offset"
    /\ LET th == threads[t]
           new_offset == finalOffset(th.size)
       IN  /\ last_processed_offset_' = new_offset
           /\ status_file' = writeLastOffset(status_file, new_offset, "ok").file
           /\ passes' = Append(passes, [from |-> th.from, to |-> new_offset, ok |-> TRUE,
                                        size |-> th.size])
    /\ ThreadStep(t, IdleThread)
    /\ UNCHANGED << mapping_, forward_index_, inverted_index_, data_file, ingested,
                    seen, checkpoint, twin >>

\* Threads call the reader operations and loadIncremental on one manager
\* while records are appended to the data file.
NextThreads ==
    \/ NoCrash /\ \E chunk \in CheckpointRecords : AppendData(chunk)
    \/ \E t \in Threads :
          \/ \E tags \in ThreadTagLists, op \in ThreadOps : BeginQuery(t, tags, op)
          \/ LookupTag(t)
          \/ \E outcome \in {"done", "crash"} : PushBack(t, outcome)
          \/ \E outcome \in {"done", "crash"} : MapInsert(t, outcome)
          \/ Perform(t)
          \/ BeginTagCount(t)
          \/ ReadTagCount(t)
          \/ BeginLoad(t)
          \/ ApplyDictionaryAndForward(t)
          \/ ApplyInverted(t)
          \/ StoreOffset(t)

SpecThreads == Init /\ [][NextThreads]_vars

-----------------------------------------------------------------------------
(* The dictionary on its own                                               *)

\* the strings handed to the interning operations
InternStrings == { << >>, << "a" >>, << "b" >>, << "a", "b" >> }

InternOps == {"getId", "getIdMove", "getTagId", "getTagIdMove"}

\* the first-sight order of the distinct non-empty strings
Remember(order, str) ==
    IF str = << >> \/ str \in SeqToSet(order) THEN order ELSE Append(order, str)

CallGetId(str_id) ==
    /\ LET r == getId(mapping_, str_id)
       IN  /\ mapping_' = r.m
           /\ lastOp' = "getId"
           /\ lastArg' = str_id
           /\ lastRet' = r.id
           /\ seen' = [seen EXCEPT !.docs = Remember(@, str_id)]
           /\ UNCHANGED << forward_index_, inverted_index_, last_processed_offset_,
                           status_file, data_file, ingested, passes >>
    /\ UNCHANGED << checkpoint, threads, twin >>

CallGetIdMove(str_id) ==
    /\ LET r == getIdMove(mapping_, str_id)
       IN  /\ mapping_' = r.m
           /\ lastOp' = "getIdMove"
           /\ lastArg' = str_id
           /\ lastRet' = r.id
           /\ seen' = [seen EXCEPT !.docs = Remember(@, str_id)]
           /\ UNCHANGED << forward_index_, inverted_index_, last_processed_offset_,
                           status_file, data_file, ingested, passes >>
    /\ UNCHANGED << checkpoint, threads, twin >>

CallGetTagId(str_tag) ==
    /\ LET r == getTagId(mapping_, str_tag)
       IN  /\ mapping_' = r.m
           /\ lastOp' = "getTagId"
           /\ lastArg' = str_tag
           /\ lastRet' = r.id
           /\ seen' = [seen EXCEPT !.tags = Remember(@, str_tag)]
           /\ UNCHANGED << forward_index_, inverted_index_, last_processed_offset_,
                           status_file, data_file, ingested, passes >>
    /\ UNCHANGED << checkpoint, threads, twin >>

CallGetTagIdMove(str_tag) ==
    /\ LET r == getTagIdMove(mapping_, str_tag)
       IN  /\ mapping_' = r.m
           /\ lastOp' = "getTagIdMove"
           /\ lastArg' = str_tag
           /\ lastRet' = r.id
           /\ seen' = [seen EXCEPT !.tags = Remember(@, str_tag)]
           /\ UNCHANGED << forward_index_, inverted_index_, last_processed_offset_,
                           status_file, data_file, ingested, passes >>
    /\ UNCHANGED << checkpoint, threads, twin >>

NextMapping ==
    \/ \E str \in InternStrings : CallGetId(str)
    \/ \E str \in InternStrings : CallGetIdMove(str)
    \/ \E str \in InternStrings : CallGetTagId(str)
    \/ \E str \in InternStrings : CallGetTagIdMove(str)

SpecMapping == Init /\ [][NextMapping]_vars

\* the dictionary after the decimal names of 0..nd-1 were interned as
\* documents and those of 0..nt-1 as tags, in that order
Filled(nd, nt) ==
    [doc_id_to_string |-> [i \in 1..nd |-> formatOffset(i - 1)],
     string_to_doc_id |-> [str \in { formatOffset(i - 1) : i \in 1..nd }
                               |-> digitsValue(str, 1, Len(str))],
     tag_id_to_string |-> [i \in 1..nt |-> formatOffset(i - 1)],
     string_to_tag_id |-> [str \in { formatOffset(i - 1) : i \in 1..nt }
                               |-> digitsValue(str, 1, Len(str))]]

\* how many ids short of full the dictionaries start
MaxRoom == 1

\* a dictionary that is full or nearly full of documents and of tags
InitOverflow ==
    /\ \E nd, nt \in (IdWrap - 1 - MaxRoom)..(IdWrap - 1) :
          /\ mapping_ = Filled(nd, nt)
          /\ seen = [docs |-> Filled(nd, nt).doc_id_to_string,
                     tags |-> Filled(nd, nt).tag_id_to_string]
    /\ forward_index_ = << >>
    /\ inverted_index_ = << >>
    /\ status_file = AbsentFile
    /\ last_processed_offset_ = readLastOffset(AbsentFile)
    /\ data_file = AbsentFile
    /\ lastOp = "new"
    /\ lastArg = << >>
    /\ lastRet = TRUE
    /\ ingested = << >>
    /\ passes = << >>
    /\ checkpoint = AbsentCheckpoint
    /\ threads = [t \in Threads |-> IdleThread]
    /\ twin = FreshTwin

\* a string the filled dictionaries hold and two they do not
OverflowStrings == { << "0" >>, << "a" >>, << "b" >> }

\* Interning into a dictionary that runs out of ids.
NextOverflow ==
    \/ \E str \in OverflowStrings : CallGetId(str)
    \/ \E str \in OverflowStrings : CallGetIdMove(str)
    \/ \E str \in OverflowStrings : CallGetTagId(str)
    \/ \E str \in OverflowStrings : CallGetTagIdMove(str)

SpecOverflow == InitOverflow /\ [][NextOverflow]_vars

-----------------------------------------------------------------------------
(* The inverted index on its own                                           *)

DocIdArgs == (0..MaxDocId) \cup {INVALID_DOC_ID}

TagIdArgs == (0..MaxTagId) \cup {INVALID_TAG_ID}

CallAdd(doc_id, tag_id) ==
    /\ inverted_index_' = add(inverted_index_, doc_id, tag_id)
    /\ lastOp' = "add"
    /\ lastArg' = << doc_id, tag_id >>
    /\ lastRet' = TRUE
    /\ UNCHANGED << mapping_, forward_index_, last_processed_offset_,
                    status_file, data_file, ingested, passes, seen >>
    /\ UNCHANGED << checkpoint, threads, twin >>

NextInverted == \E doc_id \in DocIdArgs, tag_id \in TagIdArgs : CallAdd(doc_id, tag_id)

SpecInverted == Init /\ [][NextInverted]_vars

\* the tag id lists handed to performOperation
OperationLists == UNION { [1..n -> TagIdArgs] : n \in 0..MaxOpLen }

\* InvertedIndex::performOperation, a const member; the bitmap it returns is
\* performOperation(inverted_index_, tag_ids, op)
CallPerformOperation(tag_ids, op) ==
    /\ lastOp' = "performOperation"
    /\ lastArg' = << >>
    /\ lastRet' = TRUE
    /\ UNCHANGED << mapping_, forward_index_, inverted_index_, last_processed_offset_,
                    status_file, data_file, ingested, passes, seen, checkpoint,
                    threads, twin >>

\* The inverted index is filled by add and asked by performOperation.
NextOperation ==
    \/ \E doc_id \in DocIdArgs, tag_id \in TagIdArgs : CallAdd(doc_id, tag_id)
    \/ \E tag_ids \in OperationLists, op \in Ops : CallPerformOperation(tag_ids, op)

SpecOperation == Init /\ [][NextOperation]_vars

-----------------------------------------------------------------------------
(* The parser on its own                                                   *)

\* what the stream handed to parseStream grows by: a record, a
\* whitespace-only line, an empty line, a line whose first field is blank, a
\* record with blanks around a field and an empty field, and a record
\* without its newline
ParserLines ==
    { << "x", "|", "a", "\n" >>,
      << " ", "\n" >>,
      << "\n" >>,
      << " ", "|", "a", "\n" >>,
      << "y", " ", "|", "|", "b", "\n" >>,
      << "x", "|", "b" >> }

\* CsvParser::parseStream on the stream data_file.text from start_offset;
\* the callback invocations and the return value are
\* parseStream(data_file.text, start_offset, "none", 0)
CallParseStream(start_offset) ==
    /\ data_file.exists
    /\ start_offset \in 0..Len(data_file.text)
    /\ lastOp' = "parseStream"
    /\ lastArg' = << >>
    /\ lastRet' = parseStream(data_file.text, start_offset, "none", 0).ret
    /\ UNCHANGED << mapping_, forward_index_, inverted_index_, last_processed_offset_,
                    status_file, data_file, ingested, passes, seen, checkpoint,
                    threads, twin >>

\* A stream grows line by line and is parsed from any of its offsets.
NextParser ==
    \/ \E chunk \in ParserLines : AppendData(chunk)
    \/ \E start_offset \in 0..MaxFileLen : CallParseStream(start_offset)

SpecParser == Init /\ [][NextParser]_vars

-----------------------------------------------------------------------------
(* The status file between runs                                            *)

\* the bytes a status file may hold when a run starts: digits, a letter,
\* blanks, a sign and a newline
StatusChars == {"0", "1", "9", "a", " ", "-", "\n"}

StatusTexts == UNION { [1..n -> StatusChars] : n \in 0..MaxStatusLen }

\* the status file as something other than writeLastOffset left it (an
\* edit, a torn write, another program)
WriteStatus(text) ==
    /\ status_file' = [exists |-> TRUE, text |-> text]
    /\ lastOp' = "write_status"
    /\ lastArg' = << >>
    /\ lastRet' = TRUE
    /\ UNCHANGED << mapping_, forward_index_, inverted_index_, last_processed_offset_,
                    data_file, ingested, passes, seen, checkpoint, threads, twin >>

\* the status file is deleted
RemoveStatus ==
    /\ status_file.exists
    /\ status_file' = AbsentFile
    /\ lastOp' = "remove_status"
    /\ lastArg' = << >>
    /\ lastRet' = TRUE
    /\ UNCHANGED << mapping_, forward_index_, inverted_index_, last_processed_offset_,
                    data_file, ingested, passes, seen, checkpoint, threads, twin >>

\* Runs of the program that find the status file in any condition.
NextStatus ==
    \/ \E text \in StatusTexts : WriteStatus(text)
    \/ RemoveStatus
    \/ Construct

SpecStatus == Init /\ [][NextStatus]_vars

-----------------------------------------------------------------------------
(* What the ingested records say, independently of the indices             *)

\* the tag strings some ingested record carried
IngestedTags == UNION { SeqToSet(ingested[i].tags) : i \in 1..Len(ingested) }

\* the documents some ingested record named
IngestedDocs == { ingested[i].id : i \in 1..Len(ingested) }

\* D(t): the documents with at least one ingested record listing tag t
DocsOf(t) ==
    { ingested[i].id : i \in { j \in 1..Len(ingested) : t \in SeqToSet(ingested[j].tags) } }

\* the answer the set algebra gives for a tag list
ExpectedDocs(tags, op) ==
    LET n == Len(tags)
    IN  CASE op = "AND"    -> { d \in IngestedDocs : \A i \in 1..n : d \in DocsOf(tags[i]) }
          [] op = "OR"     -> { d \in IngestedDocs : \E i \in 1..n : d \in DocsOf(tags[i]) }
          [] op = "XOR"    -> { d \in IngestedDocs :
                                  Cardinality({ i \in 1..n : d \in DocsOf(tags[i]) }) % 2 = 1 }
          [] op = "ANDNOT" -> { d \in IngestedDocs :
                                  /\ d \in DocsOf(tags[1])
                                  /\ \A i \in 2..n : d \notin DocsOf(tags[i]) }

\* the tags of the most recently ingested record of a document
LastTagsOf(doc) ==
    LET at == { i \in 1..Len(ingested) : ingested[i].id = doc }
    IN  SeqToSet(ingested[CHOOSE i \in at : \A j \in at : j <= i].tags)

QueryResult(tags, op) == queryTags(mapping_, inverted_index_, tags, op).result

TagsForResult(doc) == getTagsForDocument(mapping_, forward_index_, doc).result

-----------------------------------------------------------------------------
(* Claims                                                                  *)

\* C1: in every state the manager reaches by ingestion passes and earlier
\* reads, a query whose first tag was carried by no ingested record (the empty
\* string included) returns the empty list under every operator.
C1_FirstTagNeverIngestedGivesEmpty ==
    \A tags \in QueryTagLists, op \in Ops :
        tags[1] \notin IngestedTags => QueryResult(tags, op) = << >>

\* C2: a step of query or tags_for leaves the dictionary, the forward index,
\* the inverted index and last_processed_offset as they were.
C2_ReadsChangeNothing ==
    [][lastOp' \in {"query", "tags_for"} =>
          UNCHANGED << mapping_, forward_index_, inverted_index_,
                       last_processed_offset_ >>]_vars

\* C3: a query whose first tag was ingested returns exactly the documents the
\* set algebra over D(t1)..D(tn) gives: intersection for AND, union for OR,
\* symmetric difference for XOR, D(t1) minus the union of the others for
\* ANDNOT, where D(t) is empty for a tag never ingested.
C3_QueryIsSetAlgebra ==
    \A tags \in QueryTagLists, op \in Ops :
        tags[1] \in IngestedTags =>
            SeqToSet(QueryResult(tags, op)) = ExpectedDocs(tags, op)

\* a query has run in a state where two ingested tags give a non-empty
\* answer under AND, XOR and ANDNOT, and where a tag no record carried, put
\* after an ingested one, is ignored by OR
C3_Witness ==
    /\ lastOp = "query"
    /\ \E t \in QueryTagStrings, u \in QueryTagStrings :
          /\ t \in IngestedTags /\ u \in IngestedTags
          /\ QueryResult(<< t, u >>, "AND") # << >>
          /\ QueryResult(<< t, u >>, "XOR") # << >>
          /\ QueryResult(<< t, u >>, "ANDNOT") # << >>
    /\ \E t \in QueryTagStrings, u \in QueryTagStrings :
          /\ t \in IngestedTags /\ u \notin IngestedTags
          /\ QueryResult(<< t, u >>, "OR") # << >>

\* C4: tags_for of a document never ingested is empty; of an ingested
\* document it is the distinct tags of its most recent record, each once.
C4_TagsForIsLastRecord ==
    \A doc \in QueryDocStrings :
        LET r == TagsForResult(doc)
        IN  IF doc \notin IngestedDocs THEN r = << >>
            ELSE /\ SeqToSet(r) = LastTagsOf(doc)
                 /\ Len(r) = Cardinality(LastTagsOf(doc))

\* tags_for has run in a state where a document has two ingested records
\* with different tags, the later one repeating a tag, and another document
\* asked about was never ingested
C4_Witness ==
    /\ lastOp = "tags_for"
    /\ \E i \in 1..Len(ingested), j \in 1..Len(ingested) :
          /\ i < j
          /\ ingested[i].id = ingested[j].id
          /\ SeqToSet(ingested[i].tags) # SeqToSet(ingested[j].tags)
          /\ \A k \in (j + 1)..Len(ingested) : ingested[k].id # ingested[j].id
          /\ Len(ingested[j].tags) > Cardinality(SeqToSet(ingested[j].tags))
          /\ TagsForResult(ingested[j].id) # << >>
    /\ \E doc \in QueryDocStrings \ {<< >>} : doc \notin IngestedDocs

\* C5: in every state of the dictionary the id->string arrays and the
\* string->id tables are mutual inverses, for documents and for tags: every
\* id below the count maps to a string that maps back to it, every key maps
\* to an id whose string is the key, so no two strings share an id; and the
\* string of the id just returned for a non-empty string is that string.
C5_DictionaryBijection ==
    /\ \A i \in 1..Len(mapping_.doc_id_to_string) :
          /\ mapping_.doc_id_to_string[i] \in DOMAIN mapping_.string_to_doc_id
          /\ mapping_.string_to_doc_id[mapping_.doc_id_to_string[i]] = i - 1
    /\ \A str \in DOMAIN mapping_.string_to_doc_id :
          /\ mapping_.string_to_doc_id[str] < Len(mapping_.doc_id_to_string)
          /\ getStringId(mapping_, mapping_.string_to_doc_id[str]) = str
    /\ \A i \in 1..Len(mapping_.tag_id_to_string) :
          /\ mapping_.tag_id_to_string[i] \in DOMAIN mapping_.string_to_tag_id
          /\ mapping_.string_to_tag_id[mapping_.tag_id_to_string[i]] = i - 1
    /\ \A str \in DOMAIN mapping_.string_to_tag_id :
          /\ mapping_.string_to_tag_id[str] < Len(mapping_.tag_id_to_string)
          /\ getStringTag(mapping_, mapping_.string_to_tag_id[str]) = str
    /\ \A str \in SeqToSet(seen.docs) : getStringId(mapping_, getId(mapping_, str).id) = str
    /\ \A str \in SeqToSet(seen.tags) : getStringTag(mapping_, getTagId(mapping_, str).id) = str
    /\ (lastOp \in {"getId", "getIdMove"} /\ lastArg # << >>) =>
          getStringId(mapping_, lastRet) = lastArg
    /\ (lastOp \in {"getTagId", "getTagIdMove"} /\ lastArg # << >>) =>
          getStringTag(mapping_, lastRet) = lastArg

\* the move form has just interned the two-character string after other
\* strings, and both dictionaries hold several strings
C5_Witness ==
    /\ lastOp = "getIdMove"
    /\ lastArg = << "a", "b" >>
    /\ lastRet = 2
    /\ Len(mapping_.doc_id_to_string) = 3
    /\ Len(mapping_.tag_id_to_string) >= 2

\* the position, counted from 0, of a string in a first-sight order
PositionIn(order, str) == (CHOOSE k \in 1..Len(order) : order[k] = str) - 1

\* C6: a step that interns a non-empty string returns, for the k-th distinct
\* string (k from 0, documents and tags counted apart), the id k and raises
\* the count by one; for a string interned before, the id it got then, with
\* the count unchanged; and every string interned before keeps its id.
C6_IdsCountUpAndStay ==
    [][ /\ (lastOp' \in {"getId", "getIdMove"} /\ lastArg' # << >>) =>
              IF lastArg' \in SeqToSet(seen.docs)
              THEN /\ lastRet' = PositionIn(seen.docs, lastArg')
                   /\ getDocCount(mapping_') = getDocCount(mapping_)
              ELSE /\ lastRet' = Len(seen.docs)
                   /\ getDocCount(mapping_') = getDocCount(mapping_) + 1
        /\ (lastOp' \in {"getTagId", "getTagIdMove"} /\ lastArg' # << >>) =>
              IF lastArg' \in SeqToSet(seen.tags)
              THEN /\ lastRet' = PositionIn(seen.tags, lastArg')
                   /\ getTagCount(mapping_') = getTagCount(mapping_)
              ELSE /\ lastRet' = Len(seen.tags)
                   /\ getTagCount(mapping_') = getTagCount(mapping_) + 1
        /\ lastOp' \in InternOps =>
              /\ \A k \in 1..Len(seen.docs) :
                    /\ mapping_.string_to_doc_id[seen.docs[k]] = k - 1
                    /\ mapping_'.string_to_doc_id[seen.docs[k]] = k - 1
              /\ \A k \in 1..Len(seen.tags) :
                    /\ mapping_.string_to_tag_id[seen.tags[k]] = k - 1
                    /\ mapping_'.string_to_tag_id[seen.tags[k]] = k - 1
      ]_vars

\* three distinct tags were interned and the first of them was interned
\* again, getting id 0 once more
C6_Witness ==
    /\ lastOp \in {"getTagId", "getTagIdMove"}
    /\ Len(seen.tags) = 3
    /\ lastArg = seen.tags[1]
    /\ lastRet = 0
    /\ getTagCount(mapping_) = 3
    /\ Len(seen.docs) >= 1

\* C7: a step that interns the empty string, as a document or as a tag, by
\* copy or by move, returns the INVALID sentinel and leaves the dictionary,
\* hence its counts and next ids, as it was.
C7_EmptyStringIsRejected ==
    [][(lastOp' \in InternOps /\ lastArg' = << >>) =>
          /\ lastRet' = (IF lastOp' \in {"getId", "getIdMove"}
                         THEN INVALID_DOC_ID ELSE INVALID_TAG_ID)
          /\ mapping_' = mapping_
          /\ getDocCount(mapping_') = getDocCount(mapping_)
          /\ getTagCount(mapping_') = getTagCount(mapping_)
          /\ getNextDocId(mapping_') = getNextDocId(mapping_)
          /\ getNextTagId(mapping_') = getNextTagId(mapping_)]_vars

\* the empty string was just handed to an interning operation of a
\* dictionary that holds documents and tags
C7_Witness ==
    /\ lastOp \in InternOps
    /\ lastArg = << >>
    /\ lastRet = INVALID_DOC_ID
    /\ getDocCount(mapping_) >= 1
    /\ getTagCount(mapping_) >= 1

\* C8: in every state reached by add(d, t) with valid d and t, adding (d, t)
\* again gives the same slot count, the same set in every slot and the same
\* cardinality for every tag.
C8_AddTwiceIsAddOnce ==
    (lastOp = "add" /\ lastArg[1] # INVALID_DOC_ID /\ lastArg[2] # INVALID_TAG_ID) =>
        LET twice == add(inverted_index_, lastArg[1], lastArg[2])
        IN  /\ Len(twice) = Len(inverted_index_)
            /\ \A i \in 1..Len(twice) : twice[i] = inverted_index_[i]
            /\ \A t \in TagIdArgs :
                  getCardinality(twice, t) = getCardinality(inverted_index_, t)

\* a valid pair was just added to an index that holds every slot and a slot
\* with more than one document
C8_Witness ==
    /\ lastOp = "add"
    /\ lastArg[1] # INVALID_DOC_ID
    /\ lastArg[2] # INVALID_TAG_ID
    /\ Len(inverted_index_) = MaxTagId + 1
    /\ lastArg[1] \in inverted_index_[lastArg[2] + 1]
    /\ \E i \in 1..Len(inverted_index_) : Cardinality(inverted_index_[i]) >= 2

\* C9: when loadIncremental has returned true and is called again with the
\* data file unchanged, the call returns true and leaves the dictionary, the
\* forward index, the inverted index, last_processed_offset and the status
\* file as they were, whatever the file system does during the call.
C9_SecondLoadChangesNothing ==
    [][(lastOp = "load" /\ lastRet = TRUE /\ lastOp' = "load" /\ data_file' = data_file) =>
          /\ lastRet' = TRUE
          /\ UNCHANGED << mapping_, forward_index_, inverted_index_,
                          last_processed_offset_, status_file >>]_vars

\* a call found nothing new after a pass that had ingested records up to the
\* present end of the data file and had written the status file
C9_Witness ==
    /\ lastOp = "load"
    /\ lastArg = << "up_to_date" >>
    /\ lastRet = TRUE
    /\ passes # << >>
    /\ passes[Len(passes)].to = Len(data_file.text)
    /\ ingested # << >>
    /\ status_file.exists
    /\ status_file.text = formatOffset(last_processed_offset_)

\* what a fresh manager holds after one pass over `bytes` from offset 0
FreshLoad(bytes) ==
    LET st == processAll([m |-> EmptyMapping, fwd |-> << >>, inv |-> << >>],
                         parseStream(bytes, 0, "none", 0).records)
    IN  [m |-> st.m, fwd |-> st.fwd, inv |-> shrinkToFit(runOptimize(st.inv)),
         offset |-> finalOffset(Len(bytes))]

\* what the manager holds
Loaded ==
    [m |-> mapping_, fwd |-> forward_index_, inv |-> inverted_index_,
     offset |-> last_processed_offset_]

\* two passes have run without a stream error: the first over F1, the second
\* over the bytes F2 appended to it
TwoPasses == Len(passes) = 2 /\ passes[1].ok /\ passes[2].ok

\* C10 as stated: after a pass over F1 and a pass over the appended F2, the
\* dictionary, the indices and the offset are those of a fresh manager after
\* one pass over F1+F2, for any F1 and F2.
C10_AppendConvergence ==
    TwoPasses => Loaded = FreshLoad(SubSeq(data_file.text, 1, passes[2].to))

\* C10: when F1 ends with a newline, a pass over F1 followed by a pass over
\* the appended F2 leaves the dictionary, the indices and the offset of a
\* fresh manager after one pass over F1+F2.
C10_AppendConvergenceWholeLines ==
    (TwoPasses /\ data_file.text[passes[1].to] = NL) =>
        Loaded = FreshLoad(SubSeq(data_file.text, 1, passes[2].to))

\* two passes ran, the first over a file ending with a newline, and each
\* ingested a record
C10_Witness ==
    /\ TwoPasses
    /\ data_file.text[passes[1].to] = NL
    /\ passes[2].to = Len(data_file.text)
    /\ Len(ingested) >= 2
    /\ Len(mapping_.doc_id_to_string) = 2
    /\ Loaded = FreshLoad(data_file.text)

-----------------------------------------------------------------------------
(* Claims on the checkpoint and on restarts                                *)

\* the answers of the manager that wrote the checkpoint
SavedQueryResult(tags, op) ==
    queryTags(checkpoint.original.m, checkpoint.original.inv, tags, op).result

SavedTagsForResult(doc) ==
    getTagsForDocument(checkpoint.original.m, checkpoint.original.fwd, doc).result

\* C11: when loadIndex has read the three whole files that saveIndex wrote,
\* it has returned true and the manager answers every query and every
\* tags_for as the manager that saved did, with the same document count and
\* the same tag count.
C11_RoundTripPersistence ==
    (lastOp = "loadIndex" /\ lastArg = << "none" >> /\ checkpoint.exists)
        => /\ lastRet = TRUE
           /\ \A tags \in QueryTagLists, op \in Ops :
                  QueryResult(tags, op) = SavedQueryResult(tags, op)
           /\ \A doc \in QueryDocStrings : TagsForResult(doc) = SavedTagsForResult(doc)
           /\ getDocCount(mapping_) = getDocCount(checkpoint.original.m)
           /\ getTagCount(mapping_) = getTagCount(checkpoint.original.m)

\* a checkpoint of two documents and two tags was loaded, and the loaded
\* manager answers a query with a document and a tags_for with two tags
C11_Witness ==
    /\ lastOp = "loadIndex" /\ lastArg = << "none" >> /\ lastRet = TRUE
    /\ checkpoint.exists
    /\ getDocCount(checkpoint.original.m) = 2
    /\ getTagCount(checkpoint.original.m) = 2
    /\ QueryResult(<< << "a" >>, << "b" >> >>, "AND") = << << "y" >> >>
    /\ Len(TagsForResult(<< "y" >>)) = 2

\* the end of the last line of `bytes` that lies wholly before `offset`
WholeLinesEnd(bytes, offset) ==
    LET ends == { k \in 1..Len(bytes) : k <= offset /\ bytes[k] = NL }
    IN  IF ends = {} THEN 0 ELSE CHOOSE k \in ends : \A j \in ends : j <= k

\* the records of the data file that lie wholly before last_processed_offset_
RecordsBefore ==
    IF ~data_file.exists THEN << >>
    ELSE recordsOf(getLines(SubSeq(data_file.text, 1,
                                   WholeLinesEnd(data_file.text, last_processed_offset_)),
                            0))

\* record i of recs is reflected: its document and tags have ids, the
\* document is in the bitmap of each of its tags, and when no later record
\* of recs names the document its tags are the document's forward slot
ReflectedAt(recs, i) ==
    LET rec == recs[i]
        m   == mapping_
    IN  /\ rec.id \in DOMAIN m.string_to_doc_id
        /\ \A t \in SeqToSet(rec.tags) :
              /\ t \in DOMAIN m.string_to_tag_id
              /\ m.string_to_tag_id[t] + 1 \in DOMAIN inverted_index_
              /\ m.string_to_doc_id[rec.id] \in inverted_index_[m.string_to_tag_id[t] + 1]
        /\ (\A j \in (i + 1)..Len(recs) : recs[j].id # rec.id)
              => /\ m.string_to_doc_id[rec.id] + 1 \in DOMAIN forward_index_
                 /\ SeqToSet(forward_index_[m.string_to_doc_id[rec.id] + 1])
                      = { m.string_to_tag_id[t] : t \in SeqToSet(rec.tags) }

\* C12: in every state of a manager, a manager just constructed over an
\* existing status file included, every record of the data file that lies
\* wholly before last_processed_offset_ is reflected in the dictionary, the
\* forward index and the inverted index.
C12_IngestionStateInvariant ==
    \A i \in 1..Len(RecordsBefore) : ReflectedAt(RecordsBefore, i)

\* C13: a step of loadIncremental in which parseStream returned false (a
\* failed seek or a bad stream) leaves last_processed_offset_ and the status
\* file as they were.
C13_FatalErrorKeepsOffset ==
    [][ (Len(passes') = Len(passes) + 1 /\ ~passes'[Len(passes')].ok)
            => /\ last_processed_offset_' = last_processed_offset_
               /\ status_file' = status_file ]_vars

\* C14: a step of loadIncremental taken while the data file does not exist
\* returns false and leaves the dictionary, the forward index, the inverted
\* index, last_processed_offset_ and the status file as they were.
C14_MissingDataFileChangesNothing ==
    [][ (lastOp' = "load" /\ ~data_file.exists)
            => /\ lastRet' = FALSE
               /\ UNCHANGED << mapping_, forward_index_, inverted_index_,
                               last_processed_offset_, status_file >> ]_vars

\* loadIncremental has returned false for a missing data file in a manager
\* that holds ingested records, an offset and a status file
C14_Witness ==
    /\ lastOp = "load" /\ lastArg = << "absent" >> /\ lastRet = FALSE
    /\ ~data_file.exists
    /\ last_processed_offset_ > 0
    /\ status_file.exists
    /\ getDocCount(mapping_) > 0
    /\ inverted_index_ # << >>

\* C15: when load of a component has returned false, the component is empty:
\* the dictionary has no documents and no tags, the forward index and the
\* inverted index have no slots.
C15_FailedLoadLeavesComponentEmpty ==
    /\ (lastOp = "Mapping::load" /\ lastRet = FALSE)
          => (getDocCount(mapping_) = 0 /\ getTagCount(mapping_) = 0
              /\ mapping_.doc_id_to_string = << >> /\ mapping_.tag_id_to_string = << >>)
    /\ (lastOp = "ForwardIndex::load" /\ lastRet = FALSE) => forward_index_ = << >>
    /\ (lastOp = "InvertedIndex::load" /\ lastRet = FALSE) => inverted_index_ = << >>

-----------------------------------------------------------------------------
(* Claims on threads                                                       *)

\* thread t is about to write the dictionary inside a reader operation
WritesDictionary(t) == threads[t].pc \in {"q_push", "q_insert"}

\* C16: in no state is a thread inside a reader operation about to write the
\* dictionary while another thread is inside a reader operation, where it
\* reads or writes the dictionary.
C16_ReadersNeverWriteSharedState ==
    \A t \in Threads, u \in Threads :
        t # u => ~(WritesDictionary(t) /\ holdsShared(threads[u]))

\* every tag id in a forward slot has the slot's document in its bitmap
ForwardWithinInverted ==
    \A d \in 1..Len(forward_index_) :
        \A tag_id \in SeqToSet(forward_index_[d]) :
            /\ tag_id + 1 \in DOMAIN inverted_index_
            /\ (d - 1) \in inverted_index_[tag_id + 1]

\* C17: while a thread is inside loadIncremental no other thread is inside an
\* operation of the manager; so whenever a thread is inside a reader
\* operation no record is half applied (the forward index lies within the
\* inverted index) and every record of the data file before
\* last_processed_offset_, which every returned pass has moved to the end of
\* its bytes, is reflected in the indices.
C17_LoadIncrementalIsExclusive ==
    /\ \A t \in Threads, u \in Threads :
          (t # u /\ holdsUnique(threads[t]))
              => (~holdsShared(threads[u]) /\ ~holdsUnique(threads[u]))
    /\ (\E t \in Threads : holdsShared(threads[t]))
          => /\ ForwardWithinInverted
             /\ \A i \in 1..Len(RecordsBefore) : ReflectedAt(RecordsBefore, i)
             /\ \A k \in 1..Len(passes) : passes[k].to <= last_processed_offset_

\* a pass that follows a returned pass has applied one record to the
\* dictionary and the forward index and not yet to the inverted index, while
\* the other thread is idle
C17_Witness ==
    /\ \E t \in Threads :
          /\ threads[t].pc = "l_invert"
          /\ \A u \in Threads \ {t} : threads[u].pc = "idle"
    /\ Len(passes) >= 1
    /\ ~ForwardWithinInverted

-----------------------------------------------------------------------------
(* Claims on determinism                                                   *)

\* the passes of the first manager: where each started and the size of the
\* data file it read
PassLog == [k \in 1..Len(passes) |-> [from |-> passes[k].from, size |-> passes[k].size]]

-----------------------------------------------------------------------------
(* Claims on performOperation                                              *)

\* tag_id has no slot in the inverted index
Missing(tag_id) == tag_id = INVALID_TAG_ID \/ tag_id >= Len(inverted_index_)

\* the documents in the slot of every tag of tag_ids, all of them present
Intersection(tag_ids) ==
    { d \in UNION { inverted_index_[k] : k \in 1..Len(inverted_index_) } :
        \A i \in 1..Len(tag_ids) : d \in inverted_index_[tag_ids[i] + 1] }

\* C19: in every state of the inverted index, performOperation returns the
\* empty set for the empty tag list and, under every operator, for every tag
\* list whose first tag id is INVALID_TAG_ID or not below the slot count,
\* whatever the remaining tag ids are.
C19_MissingFirstTagGivesEmpty ==
    \A op \in Ops :
        /\ performOperation(inverted_index_, << >>, op) = {}
        /\ \A tag_ids \in OperationLists :
              (tag_ids # << >> /\ Missing(tag_ids[1]))
                  => performOperation(inverted_index_, tag_ids, op) = {}

\* performOperation was called on an index with two non-empty slots: the
\* list whose first tag id is the slot count and whose other ids are the two
\* slots has a missing first tag and documents under its remaining tags
C19_Witness ==
    /\ lastOp = "performOperation"
    /\ Len(inverted_index_) = 2
    /\ inverted_index_[1] # {} /\ inverted_index_[2] # {}
    /\ << 2, 0, 1 >> \in OperationLists
    /\ Missing(2)
    /\ performOperation(inverted_index_, << 2, 0, 1 >>, "OR") = {}

\* C20: in every state of the inverted index, performOperation under AND on
\* a list whose first tag is present returns the empty set when a later tag
\* id is missing and otherwise exactly the documents that are in the slot of
\* every listed tag; stopping at an empty running intersection is part of
\* performOperation, so it never changes this result.
C20_AndIsExactIntersection ==
    \A tag_ids \in OperationLists :
        (tag_ids # << >> /\ ~Missing(tag_ids[1]))
            => performOperation(inverted_index_, tag_ids, "AND")
                 = IF \E i \in 2..Len(tag_ids) : Missing(tag_ids[i]) THEN {}
                   ELSE Intersection(tag_ids)

\* performOperation was called on an index of three slots where the first
\* two slots share no document, so that the loop stops before the third
\* tag, and where the first and third slot share one
C20_Witness ==
    /\ lastOp = "performOperation"
    /\ Len(inverted_index_) = 3
    /\ inverted_index_[1] # {} /\ inverted_index_[2] # {}
    /\ inverted_index_[1] \cap inverted_index_[2] = {}
    /\ inverted_index_[1] \cap inverted_index_[3] # {}
    /\ performOperation(inverted_index_, << 0, 2 >>, "AND") # {}
    /\ performOperation(inverted_index_, << 0, 1, 2 >>, "AND") = {}


\* the positions of tag_ids whose tag id has a slot
PresentAt(tag_ids) == { i \in 1..Len(tag_ids) : ~Missing(tag_ids[i]) }

\* every document of the inverted index
IndexedDocs == UNION { inverted_index_[k] : k \in 1..Len(inverted_index_) }

\* the documents in the slot of some present tag of tag_ids
UnionOfPresent(tag_ids) ==
    UNION { inverted_index_[tag_ids[i] + 1] : i \in PresentAt(tag_ids) }

\* the documents in an odd number of the present slots of tag_ids, a tag id
\* listed twice counting twice
InOddNumber(tag_ids) ==
    { d \in IndexedDocs :
        Cardinality({ i \in PresentAt(tag_ids) : d \in inverted_index_[tag_ids[i] + 1] }) % 2 = 1 }

RECURSIVE DifferenceFold(_, _, _)
DifferenceFold(tag_ids, i, acc) ==
    IF i > Len(tag_ids) THEN acc
    ELSE DifferenceFold(tag_ids, i + 1,
                        IF Missing(tag_ids[i]) THEN acc
                        ELSE acc \ inverted_index_[tag_ids[i] + 1])

Orderings(n) == { p \in [1..n -> 1..n] : \A i, j \in 1..n : p[i] = p[j] => i = j }

\* tag_ids in the order given by the permutation p
Permuted(tag_ids, p) == [i \in 1..Len(tag_ids) |-> tag_ids[p[i]]]

\* every tag id of tag_ids has a slot
AllPresent(tag_ids) == \A i \in 1..Len(tag_ids) : ~Missing(tag_ids[i])

\* C23: in every state of the inverted index, for every list of tag ids
\* that all have a slot, performOperation under AND returns the same set
\* for every permutation of the list and for every split of the list into
\* two non-empty parts it is the intersection of the results of the parts;
\* for every tag t with a slot the list t, t gives the slot of t.
C23_AndCommutativeAssociativeIdempotent ==
    /\ \A tag_ids \in OperationLists :
          AllPresent(tag_ids)
              => /\ \A p \in Orderings(Len(tag_ids)) :
                        performOperation(inverted_index_, Permuted(tag_ids, p), "AND")
                            = performOperation(inverted_index_, tag_ids, "AND")
                 /\ \A k \in 1..(Len(tag_ids) - 1) :
                        performOperation(inverted_index_, tag_ids, "AND")
                            = performOperation(inverted_index_, SubSeq(tag_ids, 1, k), "AND")
                                \cap performOperation(inverted_index_,
                                                      SubSeq(tag_ids, k + 1, Len(tag_ids)), "AND")
    /\ \A t \in TagIdArgs :
          ~Missing(t) => performOperation(inverted_index_, << t, t >>, "AND") = inverted_index_[t + 1]

\* performOperation was called on an index of three slots, not all equal,
\* with a document common to all three
C23_Witness ==
    /\ lastOp = "performOperation"
    /\ Len(inverted_index_) = 3
    /\ AllPresent(<< 2, 0, 1 >>)
    /\ inverted_index_[1] # inverted_index_[2]
    /\ inverted_index_[2] # inverted_index_[3]
    /\ performOperation(inverted_index_, << 2, 0, 1 >>, "AND") # {}
    /\ performOperation(inverted_index_, << 1, 1 >>, "AND") = inverted_index_[2]

-----------------------------------------------------------------------------
(* Claims on parseStream                                                   *)

\* the offset just past the first newline at or after offset s, or the
\* length of the text when there is none
LineEnd(bytes, s) ==
    LET nls == { i \in (s + 1)..Len(bytes) : bytes[i] = NL }
    IN  IF nls = {} THEN Len(bytes) ELSE CHOOSE i \in nls : \A j \in nls : i <= j

\* the bytes of the logical line that starts at offset s, without its newline
LogicalLine(bytes, s) ==
    LET nls == { i \in (s + 1)..Len(bytes) : bytes[i] = NL }
    IN  SubSeq(bytes, s + 1, IF nls = {} THEN Len(bytes) ELSE LineEnd(bytes, s) - 1)

\* offset s is the start of the text or just past a newline
AtLineStart(bytes, s) == s = 0 \/ (s <= Len(bytes) /\ bytes[s] = NL)

\* s without its leading and trailing whitespace
RECURSIVE Stripped(_)
Stripped(s) ==
    IF s = << >> THEN s
    ELSE IF is_whitespace(Head(s)) THEN Stripped(Tail(s))
    ELSE IF is_whitespace(s[Len(s)]) THEN Stripped(SubSeq(s, 1, Len(s) - 1))
    ELSE s

\* the positions that bound the fields of a line: before it, its
\* delimiters, after it
FieldCuts(line) == {0, Len(line) + 1} \cup { i \in 1..Len(line) : line[i] = delimiter_ }

\* the k-th field of a line, k from 1
Field(line, k) ==
    LET cut(n) == CHOOSE c \in FieldCuts(line) :
                      Cardinality({ d \in FieldCuts(line) : d < c }) = n
    IN  SubSeq(line, cut(k - 1) + 1, cut(k) - 1)

\* the non-empty stripped fields of a line from the k-th on, in order
RECURSIVE FieldTags(_, _)
FieldTags(line, k) ==
    IF k > Cardinality(FieldCuts(line)) - 1 THEN << >>
    ELSE (IF Stripped(Field(line, k)) # << >> THEN << Stripped(Field(line, k)) >> ELSE << >>)
         \o FieldTags(line, k + 1)

\* one record for each logical line from offset s on whose stripped first
\* field is not empty, in line order
RECURSIVE ExpectedRecords(_, _)
ExpectedRecords(bytes, s) ==
    IF s >= Len(bytes) THEN << >>
    ELSE (IF Stripped(Field(LogicalLine(bytes, s), 1)) # << >>
          THEN << [id |-> Stripped(Field(LogicalLine(bytes, s), 1)),
                   tags |-> FieldTags(LogicalLine(bytes, s), 2)] >>
          ELSE << >>)
         \o ExpectedRecords(bytes, LineEnd(bytes, s))

\* C25: for every stream and every start offset that is 0 or just past a
\* newline, parseStream invokes the callback once, in line order, for each
\* logical line at or after the offset whose trimmed first field is not
\* empty, with the trimmed first field as the document and the trimmed
\* non-empty remaining fields, in order, as the tags; whitespace-only lines
\* and lines with an empty first field give no callback and do not stop the
\* later lines; the call returns true.
C25_OneRecordPerWellFormedLine ==
    \A start_offset \in 0..Len(data_file.text) :
        AtLineStart(data_file.text, start_offset)
            => parseStream(data_file.text, start_offset, "none", 0)
                 = [records |-> ExpectedRecords(data_file.text, start_offset), ret |-> TRUE]

\* parseStream was called on a stream of a line with a blank first field,
\* a whitespace-only line and a record with blanks after its first field
\* and an empty second field: from offset 0 and from just past the first
\* line the callback gets that one record, without the empty field
C25_Witness ==
    /\ lastOp = "parseStream"
    /\ lastRet = TRUE
    /\ data_file.text = << " ", "|", "a", "\n", " ", "\n", "y", " ", "|", "|", "b", "\n" >>
    /\ AtLineStart(data_file.text, 4)
    /\ parseStream(data_file.text, 4, "none", 0).records
           = << [id |-> << "y" >>, tags |-> << << "b" >> >>] >>
    /\ parseStream(data_file.text, 0, "none", 0).records
           = parseStream(data_file.text, 4, "none", 0).records

\* C26: for every stream and every start offset that falls inside a line,
\* parseStream discards the bytes from the offset to the next newline: the
\* callback is invoked for the lines after that newline only.
C26_PartialLineDiscarded ==
    \A start_offset \in 0..Len(data_file.text) :
        ~AtLineStart(data_file.text, start_offset)
            => parseStream(data_file.text, start_offset, "none", 0).records
                 = ExpectedRecords(data_file.text, LineEnd(data_file.text, start_offset))

-----------------------------------------------------------------------------
(* Claims on the status file                                               *)

\* the decimal text of n in len digits, zeros in front
Padded(n, len) == [i \in 1..len |-> DigitChars[((n \div (10 ^ (len - i))) % 10) + 1]]

\* the text, blanks around it aside, is one run of decimal digits
IsDecimal(text) ==
    /\ Stripped(text) # << >>
    /\ \A i \in 1..Len(Stripped(text)) : IsDigit(Stripped(text)[i])

\* the number a decimal text denotes
DecimalValue(text) ==
    CHOOSE n \in 0..(10 ^ Len(Stripped(text)) - 1) :
        Padded(n, Len(Stripped(text))) = Stripped(text)

\* C27: a manager constructed when the status file is absent, or when its
\* content is not a single non-negative decimal integer, starts with
\* last_processed_offset 0; when the content is a non-negative decimal
\* integer n (that a FileOffset can hold) it starts with
\* last_processed_offset n.
C27_StatusFileDecidesStartOffset ==
    lastOp = "construct"
        => IF ~status_file.exists \/ ~IsDecimal(status_file.text)
           THEN last_processed_offset_ = 0
           ELSE DecimalValue(status_file.text) < OffsetWrap
                    => last_processed_offset_ = DecimalValue(status_file.text)

\* C28: when an ingestion pass whose parse succeeded fails to write the
\* status file, loadIncremental still returns true, and the dictionary, the
\* two indices and last_processed_offset are those of the whole pass: every
\* record from the old offset to the end of the data file is ingested and
\* the offset is the size of the data file.
C28_StatusWriteFailureKeepsPass ==
    [][ ( /\ lastOp' = "load"
          /\ lastArg' = << "parsed" >>
          /\ passes'[Len(passes')].ok
          /\ ~(status_file'.exists
               /\ status_file'.text = formatOffset(Len(data_file.text))) )
        => LET whole == processAll([m |-> mapping_, fwd |-> forward_index_,
                                    inv |-> inverted_index_],
                                   parseStream(data_file.text, last_processed_offset_,
                                               "none", 0).records)
           IN  /\ lastRet' = TRUE
               /\ mapping_' = whole.m
               /\ forward_index_' = whole.fwd
               /\ inverted_index_' = whole.inv
               /\ last_processed_offset_' = Len(data_file.text)
      ]_vars

\* a pass has ingested two documents and returned true while the status
\* file does not hold the offset the manager has reached
C28_Witness ==
    /\ lastOp = "load"
    /\ lastArg = << "parsed" >>
    /\ lastRet = TRUE
    /\ passes[Len(passes)].ok
    /\ passes[Len(passes)].from = 0
    /\ last_processed_offset_ = Len(data_file.text)
    /\ ~(status_file.exists /\ status_file.text = formatOffset(last_processed_offset_))
    /\ getDocCount(mapping_) = 2
    /\ Len(inverted_index_) = 2

-----------------------------------------------------------------------------
(* Claims on the id space                                                  *)

\* C29: when the dictionary holds IdWrap - 1 documents, interning a string
\* that is not a document yet returns the sentinel INVALID_DOC_ID and leaves
\* the dictionary as it was, and likewise for tags with INVALID_TAG_ID; after
\* every interning no string has the sentinel as its id, the sentinel names
\* no string and the dictionary holds at most IdWrap - 1 documents and at
\* most IdWrap - 1 tags.
C29_FullDictionaryRejectsNewStrings ==
    [][ /\ ( /\ lastOp' \in {"getId", "getIdMove"}
             /\ getDocCount(mapping_) = IdWrap - 1
             /\ lastArg' \notin DOMAIN mapping_.string_to_doc_id )
            => (lastRet' = INVALID_DOC_ID /\ mapping_' = mapping_)
        /\ ( /\ lastOp' \in {"getTagId", "getTagIdMove"}
             /\ getTagCount(mapping_) = IdWrap - 1
             /\ lastArg' \notin DOMAIN mapping_.string_to_tag_id )
            => (lastRet' = INVALID_TAG_ID /\ mapping_' = mapping_)
        /\ \A str \in DOMAIN mapping_'.string_to_doc_id :
              mapping_'.string_to_doc_id[str] # INVALID_DOC_ID
        /\ \A str \in DOMAIN mapping_'.string_to_tag_id :
              mapping_'.string_to_tag_id[str] # INVALID_TAG_ID
        /\ getStringId(mapping_', INVALID_DOC_ID) = << >>
        /\ getStringTag(mapping_', INVALID_TAG_ID) = << >>
        /\ Len(mapping_'.doc_id_to_string) <= IdWrap - 1
        /\ Len(mapping_'.tag_id_to_string) <= IdWrap - 1
      ]_vars

\* the document b got the last id below the sentinel, and interning the
\* document a after it returned the sentinel
C29_Witness ==
    /\ lastOp = "getId"
    /\ lastArg = << "a" >>
    /\ lastRet = INVALID_DOC_ID
    /\ getDocCount(mapping_) = IdWrap - 1
    /\ << "a" >> \notin DOMAIN mapping_.string_to_doc_id
    /\ << "b" >> \in DOMAIN mapping_.string_to_doc_id
    /\ mapping_.string_to_doc_id[<< "b" >>] = IdWrap - 2

-----------------------------------------------------------------------------
(* Claims on the order of a query result                                   *)

\* C30: in every state of the manager and for every query, the list
\* returned holds no document string twice, every string in it is a
\* document of the dictionary, and the DocIds of its strings ascend along
\* the list, which is the order in which the dictionary first interned
\* them (the order of doc_id_to_string).
C30_ResultAscendsByDocId ==
    \A tags \in QueryTagLists, op \in Ops :
        LET r == QueryResult(tags, op)
        IN  /\ Len(r) = Cardinality(SeqToSet(r))
            /\ \A i \in 1..Len(r) :
                  /\ r[i] \in DOMAIN mapping_.string_to_doc_id
                  /\ mapping_.doc_id_to_string[mapping_.string_to_doc_id[r[i]] + 1] = r[i]
            /\ \A i, j \in 1..Len(r) :
                  i < j => mapping_.string_to_doc_id[r[i]] < mapping_.string_to_doc_id[r[j]]

\* a query has run in a state where the document ingested first was
\* interned second (an earlier tags_for interned the other one), and the
\* query for tag a lists both documents, the one interned first in front
C30_Witness ==
    /\ lastOp = "query"
    /\ Len(QueryResult(<< << "a" >> >>, "OR")) = 2
    /\ ingested # << >>
    /\ mapping_.string_to_doc_id[ingested[1].id] = 1
    /\ QueryResult(<< << "a" >> >>, "OR")[2] = ingested[1].id

-----------------------------------------------------------------------------
(* Claims on the two indices together                                      *)

\* tag id t is in the forward slot of document id d
InForward(d, t) == t \in SeqToSet(getTags(forward_index_, d))

\* document id d is in the inverted slot of tag id t
InInverted(d, t) == d \in getBitmap(inverted_index_, t).bitmap

\* every ingested record of the document string doc lists the same tags
SameTagsInEveryRecord(doc) ==
    \A i, j \in 1..Len(ingested) :
        (ingested[i].id = doc /\ ingested[j].id = doc)
            => SeqToSet(ingested[i].tags) = SeqToSet(ingested[j].tags)

\* C31 as stated: in every state of the manager, for every document id d
\* and tag id t of the dictionary, t is in forward slot d if and only if d
\* is in inverted slot t.
C31_IndicesAgree ==
    \A d \in 0..(getDocCount(mapping_) - 1), t \in 0..(getTagCount(mapping_) - 1) :
        InForward(d, t) <=> InInverted(d, t)

\* C31, amended: in every state of the manager, for every document id d and
\* tag id t of the dictionary, if t is in forward slot d then d is in
\* inverted slot t; and if d is in inverted slot t then t is in forward slot
\* d provided every ingested record of the document lists the same tags.
C31_ForwardWithinInvertedAndBack ==
    \A d \in 0..(getDocCount(mapping_) - 1), t \in 0..(getTagCount(mapping_) - 1) :
        /\ InForward(d, t) => InInverted(d, t)
        /\ (InInverted(d, t) /\ SameTagsInEveryRecord(getStringId(mapping_, d)))
               => InForward(d, t)

\* a pass has ingested a document twice with different tags: the tag of
\* its first record is in the inverted index and not in its forward slot,
\* the tag of its last record is in both
C31_Witness ==
    /\ lastOp = "load"
    /\ \E d \in 0..(getDocCount(mapping_) - 1) :
          /\ ~SameTagsInEveryRecord(getStringId(mapping_, d))
          /\ \E t \in 0..(getTagCount(mapping_) - 1) : InInverted(d, t) /\ ~InForward(d, t)
          /\ \E t \in 0..(getTagCount(mapping_) - 1) : InInverted(d, t) /\ InForward(d, t)

\* the manager's dictionary and indices
Indices == [m |-> mapping_, fwd |-> forward_index_, inv |-> inverted_index_]

\* C32: in every state of the manager, handing any suffix of the sequence
\* of records it has ingested to processParsedLine again, in order, as a
\* load from a stale smaller offset does, leaves the dictionary, the
\* forward index and the inverted index as they are.
C32_ReplayChangesNothing ==
    \A k \in 1..(Len(ingested) + 1) :
        processAll(Indices, SubSeq(ingested, k, Len(ingested))) = Indices

\* passes have ingested three records, two of them of one document with
\* different tags, so that a replayed suffix rewrites a forward slot that an
\* earlier record had filled differently
C32_Witness ==
    /\ lastOp = "load"
    /\ Len(ingested) >= 3
    /\ Len(passes) >= 2
    /\ \E i, j \in 1..Len(ingested) :
          /\ i < j
          /\ ingested[i].id = ingested[j].id
          /\ SeqToSet(ingested[i].tags) # SeqToSet(ingested[j].tags)
    /\ processAll(EmptyIndices, ingested) = Indices

\* the forward index of st has at most doc_count slots and the inverted
\* index at most tag_count slots, every tag id in a forward slot is below
\* tag_count and every document id in an inverted slot is below doc_count,
\* and every id in an index has a string
DenseIn(st) ==
    /\ Len(st.fwd) <= getDocCount(st.m)
    /\ Len(st.inv) <= getTagCount(st.m)
    /\ \A d \in 1..Len(st.fwd) :
          \A tag_id \in SeqToSet(st.fwd[d]) :
              /\ tag_id < getTagCount(st.m)
              /\ getStringTag(st.m, tag_id) # << >>
    /\ \A t \in 1..Len(st.inv) :
          \A doc_id \in st.inv[t] :
              /\ doc_id < getDocCount(st.m)
              /\ getStringId(st.m, doc_id) # << >>

\* the manager is dense, and so is the state the checkpoint was saved from
IdDensity ==
    /\ DenseIn([m |-> mapping_, fwd |-> forward_index_, inv |-> inverted_index_])
    /\ checkpoint.exists => DenseIn(checkpoint.original)

\* query and tags_for return as many strings as the ids they found
NothingDropped ==
    /\ \A tags \in QueryTagLists, op \in Ops :
          LET q == queryTagIds(mapping_, tags, op, 1, << >>)
          IN  (~q.early /\ ~(q.ids = << >> /\ op # "AND"))
                  => Len(QueryResult(tags, op))
                       = Cardinality(performOperation(inverted_index_, q.ids, op))
    /\ \A doc \in QueryDocStrings :
          Len(TagsForResult(doc)) = Len(getTags(forward_index_, getId(mapping_, doc).id))

-----------------------------------------------------------------------------
(* Ingestion into a dictionary that runs out of ids                        *)

\* records that fill the dictionary with nd documents and nt tags: document
\* i lists tag i, and the last document or the last tag is used again when
\* the other dictionary is larger
FillRecords(nd, nt) ==
    [i \in 1..(IF nd > nt THEN nd ELSE nt) |->
        [id   |-> formatOffset((IF i < nd THEN i ELSE nd) - 1),
         tags |-> << formatOffset((IF i < nt THEN i ELSE nt) - 1) >>]]

\* the manager after ingesting FillRecords(nd, nt), written out slot by
\* slot: it equals processAll(EmptyIndices, FillRecords(nd, nt))
FilledIndices(nd, nt) ==
    [m   |-> Filled(nd, nt),
     fwd |-> [d \in 1..nd |-> << (IF d < nd /\ d < nt THEN d ELSE nt) - 1 >>],
     inv |-> [t \in 1..nt |->
                 IF t < nt THEN { (IF t < nd THEN t ELSE nd) - 1 }
                 ELSE { (IF i < nd THEN i ELSE nd) - 1 :
                           i \in nt..(IF nd > nt THEN nd ELSE nt) }]]

\* a manager that holds the records of FillRecords, so that its dictionary
\* is full or nearly full, constructed over a data file that does not exist
\* yet and no status file
InitAbort ==
    /\ \E nd, nt \in (IdWrap - 1 - MaxRoom)..(IdWrap - 1) :
          LET st == FilledIndices(nd, nt)
          IN  /\ mapping_ = st.m
              /\ forward_index_ = st.fwd
              /\ inverted_index_ = st.inv
              /\ ingested = FillRecords(nd, nt)
              /\ seen = [docs |-> st.m.doc_id_to_string, tags |-> st.m.tag_id_to_string]
    /\ status_file = AbsentFile
    /\ last_processed_offset_ = readLastOffset(AbsentFile)
    /\ data_file = AbsentFile
    /\ lastOp = "new"
    /\ lastArg = << >>
    /\ lastRet = TRUE
    /\ passes = << >>
    /\ checkpoint = AbsentCheckpoint
    /\ threads = [t \in Threads |-> IdleThread]
    /\ twin = FreshTwin

\* records over documents and tags the dictionary holds ("0", "1") and
\* strings it does not hold ("a", "b")
AbortRecords ==
    { << "0", "|", "a", "\n" >>,
      << "a", "|", "0", "\n" >>,
      << "1", "|", "0", "|", "b", "\n" >>,
      << "b", "|", "a", "|", "1", "\n" >> }

NextAbort ==
    \/ \E chunk \in AbortRecords : AppendData(chunk)
    \/ loadIncremental("none", 0, "ok")

SpecAbort == InitAbort /\ [][NextAbort]_vars

\* interning the document or a tag of the record fails in st for want of an
\* id
InterningFails(st, rec) ==
    \/ rec.id # << >> /\ getId(st.m, rec.id).id = INVALID_DOC_ID
    \/ /\ getId(st.m, rec.id).id # INVALID_DOC_ID
       /\ Len(internTags(getId(st.m, rec.id).m, rec.tags, 1, << >>).tag_ids)
             < Cardinality({ i \in 1..Len(rec.tags) : rec.tags[i] # << >> })

\* every record of records[i..] whose interning fails leaves both indices as
\* they were before it
RECURSIVE FailedRecordsAbort(_, _, _)
FailedRecordsAbort(st, records, i) ==
    IF i > Len(records) THEN TRUE
    ELSE LET after == processParsedLine(st, records[i].id, records[i].tags)
         IN  /\ InterningFails(st, records[i])
                    => (after.fwd = st.fwd /\ after.inv = st.inv)
             /\ FailedRecordsAbort(after, records, i + 1)

\* C34: in every ingestion pass, a record for which interning the document
\* or one of its tags fails because the ids are used up is aborted as a
\* whole: the forward index and the inverted index are after the record
\* exactly as they were before it.
C34_FailedRecordAbortedWhole ==
    [][ (lastOp' = "load" /\ lastArg' = << "parsed" >>)
          => FailedRecordsAbort(Indices,
                                SubSeq(ingested', Len(ingested) + 1, Len(ingested')), 1)
      ]_vars

\* a record whose document cannot be interned has been ingested and both
\* indices are as before
C34_DocumentOverflowAborts ==
    [][ (/\ lastOp' = "load" /\ lastArg' = << "parsed" >>
         /\ Len(ingested') = Len(ingested) + 1
         /\ getId(mapping_, ingested'[Len(ingested')].id).id = INVALID_DOC_ID)
          => (forward_index_' = forward_index_ /\ inverted_index_' = inverted_index_)
      ]_vars

-----------------------------------------------------------------------------
(* The forward index on its own                                            *)

\* the largest document id handed to the forward index
MaxForwardDoc == 2

ForwardDocArgs == (0..MaxForwardDoc) \cup {INVALID_DOC_ID}

\* the tag id lists handed to addTags
ForwardTagLists == UNION { [1..n -> 0..1] : n \in 0..2 }

\* ForwardIndex::addTags
CallAddTags(doc_id, tag_ids) ==
    /\ forward_index_' = addTags(forward_index_, doc_id, tag_ids)
    /\ lastOp' = "addTags"
    /\ lastArg' = << doc_id, tag_ids >>
    /\ lastRet' = TRUE
    /\ UNCHANGED << mapping_, inverted_index_, last_processed_offset_, status_file,
                    data_file, ingested, passes, seen, checkpoint, threads, twin >>

\* ForwardIndex::getTags, a const member; the list it returns is
\* getTags(forward_index_, doc_id)
CallGetTags(doc_id) ==
    /\ lastOp' = "getTags"
    /\ lastArg' = << doc_id >>
    /\ lastRet' = TRUE
    /\ UNCHANGED << mapping_, forward_index_, inverted_index_, last_processed_offset_,
                    status_file, data_file, ingested, passes, seen, checkpoint,
                    threads, twin >>

NextForward ==
    \/ \E doc_id \in ForwardDocArgs, tag_ids \in ForwardTagLists : CallAddTags(doc_id, tag_ids)
    \/ \E doc_id \in ForwardDocArgs : CallGetTags(doc_id)

SpecForward == Init /\ [][NextForward]_vars

\* C35: addTags(d, tags) with a valid d makes the size max(old size, d + 1),
\* sets slot d to exactly tags, leaves every other old slot as it was and
\* creates the new slots between empty; with INVALID_DOC_ID it changes
\* nothing.  getTags(d) is empty for d >= size and for INVALID_DOC_ID.
C35_PutReplacesOneSlot ==
    /\ [][ lastOp' = "addTags" =>
             LET d == lastArg'[1]
                 tags == lastArg'[2]
                 old == forward_index_
                 new == forward_index_'
             IN  IF d = INVALID_DOC_ID THEN new = old
                 ELSE /\ Len(new) = (IF Len(old) > d + 1 THEN Len(old) ELSE d + 1)
                      /\ new[d + 1] = tags
                      /\ \A i \in 1..Len(new) :
                            i # d + 1 => new[i] = (IF i <= Len(old) THEN old[i] ELSE << >>)
          ]_vars
    /\ [](\A d \in ForwardDocArgs \cup (0..(Len(forward_index_) + 1)) :
             (d >= Len(forward_index_) \/ d = INVALID_DOC_ID)
                 => getTags(forward_index_, d) = << >>)

\* addTags has just filled slot 2 of a forward index that held one slot:
\* slot 0 is as it was and the slot between is empty
C35_Witness ==
    /\ lastOp = "addTags"
    /\ lastArg = << 2, << 1, 0 >> >>
    /\ forward_index_ = << << 0 >>, << >>, << 1, 0 >> >>

-----------------------------------------------------------------------------
(* Claims on the inverted index on its own                                 *)

\* C36: add(d, t) with d = INVALID_DOC_ID or t = INVALID_TAG_ID is a no-op:
\* the slot count and the content of every slot are unchanged; in particular
\* an invalid document id does not grow the slot array.
C36_InvalidAddIsNoOp ==
    [][ (/\ lastOp' = "add"
         /\ (lastArg'[1] = INVALID_DOC_ID \/ lastArg'[2] = INVALID_TAG_ID))
          => /\ Len(inverted_index_') = Len(inverted_index_)
             /\ \A i \in 1..Len(inverted_index_) : inverted_index_'[i] = inverted_index_[i]
      ]_vars

\* add was just called with the invalid document id and a tag id beyond the
\* slot array of an index that holds a document: the array has not grown
C36_Witness ==
    /\ lastOp = "add"
    /\ lastArg = << INVALID_DOC_ID, MaxTagId >>
    /\ Len(inverted_index_) = 1
    /\ inverted_index_[1] # {}

\* the documents slot t holds; none when the slot is absent
SlotDocs(tag_to_bitmap, t) ==
    IF t < Len(tag_to_bitmap) THEN tag_to_bitmap[t + 1] ELSE {}

-----------------------------------------------------------------------------
(* Claims on the persistence of one component                              *)

\* C38: for each of Mapping, ForwardIndex and InvertedIndex, the file holds
\* what save wrote for the saved component, and load of the whole file into
\* a component holding other data returns true and leaves the component
\* equal to the saved one, with none of the data it held before.
C38_ComponentRoundTrip ==
    /\ [](/\ checkpoint.mapping = Mapping_save(checkpoint.original.m)
          /\ checkpoint.forward = ForwardIndex_save(checkpoint.original.fwd)
          /\ checkpoint.inverted = InvertedIndex_save(checkpoint.original.inv))
    /\ [][ /\ (lastOp' = "Mapping::load" /\ lastArg' = << Len(checkpoint.mapping) >>)
               => (lastRet' = TRUE /\ mapping_' = checkpoint.original.m)
           /\ (lastOp' = "ForwardIndex::load" /\ lastArg' = << Len(checkpoint.forward) >>)
               => (lastRet' = TRUE /\ forward_index_' = checkpoint.original.fwd)
           /\ (lastOp' = "InvertedIndex::load"
                  /\ lastArg' = << Len(checkpoint.inverted) >>)
               => (lastRet' = TRUE /\ inverted_index_' = checkpoint.original.inv)
         ]_vars

\* the whole dictionary file was just loaded into a manager that held other
\* data, still to be seen in its forward index: the dictionary is the saved
\* one, which holds fewer strings than the forward index has slots
C38_Witness ==
    /\ lastOp = "Mapping::load"
    /\ lastArg = << Len(checkpoint.mapping) >>
    /\ lastRet = TRUE
    /\ mapping_ = checkpoint.original.m
    /\ getDocCount(mapping_) = 1
    /\ Len(forward_index_) = 2
    /\ forward_index_ # checkpoint.original.fwd

-----------------------------------------------------------------------------
(* Threads waiting for manager_mutex_                                      *)

\* A call of queryTags or loadIncremental first stands before the
\* constructor of its lock: the thread has requested the mutex and waits
\* until std::shared_mutex grants it.
WaitingPcs == {"want_query", "want_load"}

\* the record appended while threads wait, and how long the data file gets
WaitingRecord == << "x", "|", "a", "\n" >>

MaxWaitingLen == 4

\* the query the threads make: a tag no record has
WaitingTagLists == { << << "b" >> >> }

\* thread t calls queryTags(tags, op)
RequestQuery(t, tags, op) ==
    /\ NoCrash
    /\ threads[t].pc = "idle"
    /\ ThreadStep(t, [pc |-> "want_query", tags |-> tags, op |-> op])
    /\ UNCHANGED << mapping_, forward_index_, inverted_index_, last_processed_offset_,
                    status_file, data_file, ingested, passes, seen, checkpoint, twin >>

\* queryTags: std::shared_lock lock(manager_mutex_) returns and the loop over
\* the tags starts
LockShared(t) ==
    /\ NoCrash
    /\ threads[t].pc = "want_query"
    /\ canLockShared(threads, t)
    /\ LET th == threads[t]
       IN  ThreadStep(t, IF th.tags = << >> THEN IdleThread
                         ELSE [pc |-> "q_lookup", tags |-> th.tags, op |-> th.op,
                               i |-> 1, ids |-> << >>])
    /\ UNCHANGED << mapping_, forward_index_, inverted_index_, last_processed_offset_,
                    status_file, data_file, ingested, passes, seen, checkpoint, twin >>

\* thread t calls loadIncremental
RequestLoad(t) ==
    /\ NoCrash
    /\ threads[t].pc = "idle"
    /\ ThreadStep(t, [pc |-> "want_load"])
    /\ UNCHANGED << mapping_, forward_index_, inverted_index_, last_processed_offset_,
                    status_file, data_file, ingested, passes, seen, checkpoint, twin >>

\* loadIncremental: std::unique_lock lock(manager_mutex_) returns, the file
\* is checked, opened and parsed; the call returns at once when the file is
\* missing or holds no new data
LockUnique(t) ==
    /\ NoCrash
    /\ threads[t].pc = "want_load"
    /\ canLockUnique(threads, t)
    /\ IF ~fileExists(data_file) \/ upToDate(getFileSize(data_file), last_processed_offset_)
       THEN /\ threads' = [threads EXCEPT ![t] = IdleThread]
            /\ lastRet' = fileExists(data_file)
       ELSE \E p \in { parseStream(data_file.text, last_processed_offset_, "none", 0) } :
               /\ threads' = [threads EXCEPT ![t] =
                                 [pc |-> IF p.records = << >> THEN "l_offset" ELSE "l_apply",
                                  records |-> p.records, size |-> getFileSize(data_file),
                                  from |-> last_processed_offset_]]
               /\ lastRet' = TRUE
    /\ lastOp' = "thread"
    /\ lastArg' = << >>
    /\ UNCHANGED << mapping_, forward_index_, inverted_index_, last_processed_offset_,
                    status_file, data_file, ingested, passes, seen, checkpoint, twin >>

\* the steps thread t takes on its own once it has called an operation,
\* other than taking the exclusive lock
Proceed(t) ==
    \/ LockShared(t)
    \/ LookupTag(t)
    \/ \E outcome \in {"done", "crash"} : PushBack(t, outcome)
    \/ \E outcome \in {"done", "crash"} : MapInsert(t, outcome)
    \/ Perform(t)
    \/ ApplyDictionaryAndForward(t)
    \/ ApplyInverted(t)
    \/ StoreOffset(t)

\* LockUnique(t) is enabled
CanLockUnique(t) ==
    NoCrash /\ threads[t].pc = "want_load" /\ canLockUnique(threads, t)

NextWaiting ==
    \/ /\ NoCrash
       /\ Len(data_file.text) + Len(WaitingRecord) <= MaxWaitingLen
       /\ AppendData(WaitingRecord)
    \/ \E t \in Threads :
          \/ \E tags \in WaitingTagLists : RequestQuery(t, tags, "OR")
          \/ RequestLoad(t)
          \/ Proceed(t)
          \/ LockUnique(t)

\* The scheduler runs every thread that can take a step: a thread inside an
\* operation goes on, and a thread waiting for the mutex gets it when the
\* mutex stays free for it.  std::shared_mutex promises no order among the
\* threads that wait, so nothing stronger is assumed of the lock; whether a
\* thread calls an operation, and whether the data file grows, is up to the
\* program's user.  The last conjunct is WF_vars(LockUnique(t)) with the
\* enabling condition of LockUnique written out.
SpecWaiting ==
    /\ Init
    /\ [][NextWaiting]_vars
    /\ \A t \in Threads :
          /\ WF_vars(Proceed(t))
          /\ ([]<>(~CanLockUnique(t)) \/ []<><<LockUnique(t)>>_vars)

\* thread u can take a step on its own
CanProceed(u) ==
    \/ NoCrash /\ threads[u].pc \in (ReaderPcs \cup WriterPcs) \ {"c_read"}
    \/ NoCrash /\ threads[u].pc = "want_query" /\ canLockShared(threads, u)
    \/ CanLockUnique(u)

\* C39: every thread that has called loadIncremental or queryTags and waits
\* for the manager's mutex eventually holds it and returns, being idle
\* again, in every run that no data race ends; and in no state is the running
\* process stuck: whenever a thread is inside a call, some thread can take a
\* step.
C39_NoUnboundedWaiting ==
    /\ \A t \in Threads :
          (threads[t].pc \in WaitingPcs) ~> (threads[t].pc = "idle" \/ ~NoCrash)
    /\ [](\A t \in Threads :
             (NoCrash /\ threads[t].pc # "idle") => \E u \in Threads : CanProceed(u))

\* the waiting of C39 for loadIncremental alone, in the runs where no data
\* race ends the process
WriterWaitIsBounded ==
    \/ <>(~NoCrash)
    \/ \A t \in Threads : (threads[t].pc = "want_load") ~> (threads[t].pc = "idle")

\* the waiting of C39 for queryTags alone, in the runs where no data race
\* ends the process
ReaderWaitIsBounded ==
    \/ <>(~NoCrash)
    \/ \A t \in Threads : (threads[t].pc = "want_query") ~> (threads[t].pc = "idle")

=============================================================================
